---- MODULE Spec2Model ----
(***************************************************************************)
(* A model of the TSEM security event modeling engine: the in-kernel      *)
(* trusted modeling agent (security/tsem/model.c), the event mapper       *)
(* (security/tsem/map.c), the event magazines and file digests (event.c), *)
(* the export queue (export.c) and the namespace lifecycle (namespace.c). *)
(*                                                                         *)
(* A digest is either a string of DigestSize bytes, B(i), or the output   *)
(* of the hash function applied to a sequence of inputs, Hash(items).     *)
(* The hash function is modelled as collision free: Hash is injective and *)
(* its outputs differ from every byte string written by memset/memcpy.    *)
(***************************************************************************)
EXTENDS Integers, Sequences, FiniteSets, TLC

(***************************************************************************)
(* Bounds of the model.                                                    *)
(***************************************************************************)
MaxEvents == 3
MaxCalls == 2
MaxStream == 2
MaxWrites == 1
MaxPseudonyms == 1
MaxAcquire == 4
MaxExports == 3
MaxCreates == 3
MaxRefs == 2
NCoeffs == 2
MagazineSize == 1
NTasks == 2
MaxByte == 1

\* tsem_digestsize(): the output size of the domain's hash function, in bytes.
DigestSize == 2

Tasks == 1..NTasks

(***************************************************************************)
(* Digests.                                                                *)
(***************************************************************************)
RECURSIVE Pow(_, _)
Pow(b, e) == IF e = 0 THEN 1 ELSE b * Pow(b, e - 1)

\* The DigestSize bytes of the number i, most significant byte first.
Bytes(i) == [k \in 1..DigestSize |->
               (i \div Pow(MaxByte + 1, DigestSize - k)) % (MaxByte + 1)]

B(i) == <<"B", Bytes(i)>>

\* memset(digest, '\0', tsem_digestsize()), and zeroed allocations.
ZeroBytes == B(0)

\* crypto_shash_init / update ... / finup over the inputs, in order.
Hash(items) == <<"H", items>>

\* ctx->zero_digest: the digest of the empty input.
zero_digest == Hash(<< >>)

\* The coefficients that events carry in ep->mapping.
Coeffs == {B(i) : i \in 1..NCoeffs}

(***************************************************************************)
(* trust.c: the platform aggregate.                                        *)
(***************************************************************************)
zero_aggregate == ZeroBytes

tpm_pcr_read(lp) == B(0)

tsem_trust_aggregate(have_tpm) ==
    IF ~have_tpm THEN zero_aggregate
    ELSE Hash([lp \in 1..8 |-> tpm_pcr_read(lp - 1)])

(***************************************************************************)
(* model.c: pure parts.                                                    *)
(***************************************************************************)
get_host_measurement(base_, id) == Hash(<<base_, id>>)

update_events_measurement_swapped(meas, base_, mapping) ==
    Hash(<<get_host_measurement(base_, mapping), meas>>)

\* model->measurement after update_events_measurement(ep).
update_events_measurement(meas, base_, mapping) ==
    Hash(<<meas, get_host_measurement(base_, mapping)>>)

\* have_point(): the index of the first entry of the list with these bytes,
\* 0 for NULL.
have_point(plist, point) ==
    IF \E i \in 1..Len(plist) : plist[i].point = point
    THEN CHOOSE i \in 1..Len(plist) :
            /\ plist[i].point = point
            /\ \A j \in 1..(i - 1) : plist[j].point # point
    ELSE 0

\* A find_first_zero_bit that ignores the bitmap.
find_first_zero_bit_ignoring(bits, size) == 0

\* find_first_zero_bit(bits, size): size when every bit is set.
find_first_zero_bit(bits, size) ==
    IF \E i \in 0..(size - 1) : i \notin bits
    THEN CHOOSE i \in 0..(size - 1) :
            /\ i \notin bits
            /\ \A j \in 0..(i - 1) : j \in bits
    ELSE size

\* state_sort(): the comparison of two coefficients, byte by byte.
RECURSIVE state_sort_from(_, _, _)
state_sort_from(ap, bp, lp) ==
    IF lp > DigestSize THEN 0
    ELSE IF ap[2][lp] = bp[2][lp] THEN state_sort_from(ap, bp, lp + 1)
    ELSE IF ap[2][lp] < bp[2][lp] THEN -1
    ELSE 1

state_sort(ap, bp) == state_sort_from(ap, bp, 1)

\* sort(points, count, ..., state_sort, NULL): the points in ascending order.
RECURSIVE SortInsert(_, _)
SortInsert(sorted, p) ==
    IF sorted = << >> THEN <<p>>
    ELSE IF state_sort(p, Head(sorted)) <= 0 THEN <<p>> \o sorted
    ELSE <<Head(sorted)>> \o SortInsert(Tail(sorted), p)

RECURSIVE sort(_)
sort(points) ==
    IF points = << >> THEN << >>
    ELSE SortInsert(sort(Tail(points)), Head(points))

nosort(points) == points

state_order(points) == sort(points)

RECURSIVE StateChain(_, _, _)
StateChain(st, base_, points) ==
    IF points = << >> THEN st
    ELSE StateChain(Hash(<<st, get_host_measurement(base_, Head(points))>>),
                    base_, Tail(points))

\* tsem_model_compute_state(): model->state over the first count entries of
\* the coefficient list, every hash operation succeeding.  With count = 0,
\* vmalloc(0) returns NULL and the state is cleared (lines 330-333, 362-363).
tsem_model_compute_state(base_, aggregate_, plist, count) ==
    LET seed == Hash(<<ZeroBytes, get_host_measurement(base_, aggregate_)>>)
        points == [i \in 1..count |-> plist[i].point]
    IN IF count = 0 THEN ZeroBytes
       ELSE StateChain(seed, base_, state_order(points))

(***************************************************************************)
(* The state of one internally modeled domain and of the tasks in it.      *)
(***************************************************************************)
VARIABLES
    have_tpm,          \* trust.c: tpm != NULL
    ctx_id,            \* ctx->id: 0 is the root domain
    sealed,            \* ctx->sealed
    base,              \* model->base
    measurement,       \* model->measurement
    state,             \* model->state
    point_list,        \* model->point_list: [point, valid, count]
    point_count,       \* model->point_count
    trajectory_list,   \* model->trajectory_list: events
    forensics_list,    \* model->forensics_list: events
    magazine_index,    \* model->magazine_index: the slots whose bit is set
    trust_status,      \* task->trust_status, per task
    nevents,           \* history: the number of tsem_model_event calls made
    submitted,         \* history: ep->mapping and ep->locked of every call,
                       \* in order
    chain,             \* history: <<base, mapping>> of every call that
                       \* found its coefficient absent from the set
    faults,            \* history: the events of the calls that dereferenced
                       \* ERR_PTR(-ENOMEM)
    pc,                \* per task: its place in tsem_model_event
    cur_ep,            \* per task: ep
    cur_point,         \* per task: point, an index of point_list
    cur_sealed,        \* per task: the value read from ctx->sealed
    cur_tmp,           \* per task: the value loaded by a read-modify-write
    peer,              \* the domain that was modeled before this one: its
                       \* phase, state, base, calls and coefficients
    pseudonym_list,    \* model->pseudonym_list: the mappings, in load order
    inode,             \* per pathname: the file's bytes and i_version, and
                       \* tsip->status and the digest cached for the domain
    file_event,        \* the event that the last tsem_event_init returned
    mappings,          \* the last two events that map_event mapped, each
                       \* with the coefficient it got
    mag,               \* one magazine: which it is, magazine[], the set bits
                       \* of magazine_index and the queued refill work
    cache,             \* the kmem_cache of the magazine: the objects that
                       \* were freed, and the next object never handed out
    received,          \* history: the objects that magazine_acquire got
    refused,           \* history: the number of times magazine_acquire
                       \* returned NULL
    external,          \* ctx->external: export_list and have_event
    kref,              \* ep->kref of every event that was exported; for
                       \* the events of an internal domain, ep->kref and
                       \* the object of event_cachep the event lives in
    caller,            \* per task: its place in tsem_export_event, which
                       \* function it called last, with which locked, the
                       \* value that returned, its pending SIGKILL
    consumer,          \* the trust orchestrator: what tsem_export_show
                       \* returned last, the number of records it was
                       \* shown, the tasks whose trust status it has yet to
                       \* set; the number of export calls made
    context_id,        \* namespace.c: the id of the last domain created
    context_id_list,   \* namespace.c: the key registry, [context_id, key]
    context_id_mutex,  \* namespace.c: the task that holds the mutex, or 0
    domains,           \* history: the contexts that tsem_ns_create
                       \* installed, in order, and whether they are live
    creator,           \* per task: its place in tsem_ns_create, new_id,
                       \* its arguments (the key string stays after a
                       \* return of -EINVAL), its return value and, for a
                       \* call that failed, the things it had allocated
                       \* that were not released once, each with the
                       \* number of times it was released
    tpm_update_wq,     \* trust.c: the events whose tpm_update_worker is
                       \* queued, in order; the number of extensions of
                       \* the PCR that succeeded; whether one failed
    hook,              \* the call into the model that ran last: which
                       \* call it was, what it returned and what
                       \* tsem_trust_add_event returned to it, NONE if it
                       \* was not called; the number of calls made
    ns,                \* ctx->kref of the domain, how often ns_free queued
                       \* wq_put for it and how often wq_put ran; the
                       \* number of references taken since it was made
    have_aggregate     \* model->have_aggregate

dvars == <<have_tpm, ctx_id, sealed, base, measurement, state, point_list,
           point_count, trajectory_list, forensics_list, magazine_index,
           trust_status, nevents, submitted, chain, faults>>

tvars == <<pc, cur_ep, cur_point, cur_sealed, cur_tmp>>

\* The variables that tsem_model_event and the magazines do not touch.
fvars == <<pseudonym_list, inode, file_event>>

mvars == <<mag, cache, received, refused>>

\* The export queue of an external domain and the tasks that use it.
evars == <<external, kref, caller, consumer>>

\* The global domain id counter and key registry.
nvars == <<context_id, context_id_list, context_id_mutex, domains, creator>>

\* The reference counts of the domain and the PCR extension queue.
lvars == <<tpm_update_wq, hook, ns, have_aggregate>>

xvars == <<peer, fvars, mappings, mvars, evars, nvars, lvars>>

TSEM_TASK_TRUSTED == {"TRUSTED"}
TSEM_TASK_UNTRUSTED == {"UNTRUSTED"}
TSEM_TASK_TRUST_PENDING == {"PENDING"}

BaseValues == {B(1)}

NoEvent == [id |-> 0, mapping |-> ZeroBytes, locked |-> FALSE]

\* tsem_model_add_aggregate(): the aggregate is folded into the measurement;
\* it is not added to the coefficient list.
tsem_model_add_aggregate(meas, base_, tpm_) ==
    update_events_measurement(meas, base_, tsem_trust_aggregate(tpm_))

\* The state after tsem_model_allocate() (a zeroed model) and, for a domain
\* other than the root domain, after tsem_ns_create() has run
\* tsem_model_add_aggregate() on it.
InitDomain ==
    /\ have_tpm \in BOOLEAN
    /\ ctx_id \in {0, 1}
    /\ sealed = FALSE
    /\ base = ZeroBytes
    /\ measurement = IF ctx_id = 0 THEN ZeroBytes
                     ELSE tsem_model_add_aggregate(ZeroBytes, ZeroBytes, have_tpm)
    /\ state = ZeroBytes
    /\ point_list = << >>
    /\ point_count = 0
    /\ trajectory_list = << >>
    /\ forensics_list = << >>
    /\ magazine_index = {}
    /\ trust_status = [t \in Tasks |-> TSEM_TASK_TRUSTED]
    /\ nevents = 0
    /\ submitted = << >>
    /\ chain = IF ctx_id = 0 THEN << >>
               ELSE << <<ZeroBytes, tsem_trust_aggregate(have_tpm)>> >>
    /\ faults = {}

InitTasks ==
    /\ pc = [t \in Tasks |-> "idle"]
    /\ cur_ep = [t \in Tasks |-> NoEvent]
    /\ cur_point = [t \in Tasks |-> 0]
    /\ cur_sealed = [t \in Tasks |-> FALSE]
    /\ cur_tmp = [t \in Tasks |-> 0]

NoPeer == [phase |-> "first", state |-> ZeroBytes, base |-> ZeroBytes,
           calls |-> << >>, points |-> << >>]

InitPeer == peer = NoPeer

\* The bytes of a pathname or of a file: length n.
Str(n) == <<"S", [i \in 1..n |-> 1]>>

Paths == {Str(1), Str(2)}

Contents == {Str(0), Str(1), Str(2)}

\* No event has been made.
NoFileEvent == [event |-> "NONE", anonymous |-> FALSE, pathname |-> Str(0),
                name_length |-> 0, name |-> ZeroBytes, digest |-> ZeroBytes,
                read |-> FALSE, pseudonyms |-> << >>]

\* No pseudonym is loaded; every file is empty and its inode has no digest.
InitFiles ==
    /\ pseudonym_list = << >>
    /\ inode = [p \in Paths |->
                 [content |-> Str(0), i_version |-> 0, status |-> "NONE",
                  has_digest |-> FALSE, value |-> ZeroBytes, version |-> 0]]
    /\ file_event = NoFileEvent

InitMappings == mappings = << >>

\* The event magazine of a context (event.c), the coefficient magazine of a
\* model (model.c) and the export magazine of an external domain (export.c).
Magazines == {"event", "point", "export"}

\* tsem_event_magazine_allocate(), magazine_allocate() and
\* tsem_export_magazine_allocate(): every slot holds an object of the
\* cache and no bit is set.
InitMagazine(kind) ==
    /\ mag = [kind |-> kind,
              magazine |-> [i \in 0..(MagazineSize - 1) |-> i + 1],
              index |-> {}, work |-> {}]
    /\ cache = [freed |-> {}, next |-> MagazineSize + 1]
    /\ received = << >>
    /\ refused = 0

NoCaller == [pc |-> "idle", call |-> "NONE", locked |-> FALSE,
             retn |-> "NONE", sigkill |-> FALSE, killed |-> FALSE]

\* allocate_external(): an empty export list; nothing was exported.
InitExternal ==
    /\ external = [export_list |-> << >>, have_event |-> FALSE]
    /\ kref = << >>
    /\ caller = [t \in Tasks |-> NoCaller]
    /\ consumer = [retn |-> "NONE", shown |-> 0, due |-> {}, calls |-> 0]

NoCreator == [pc |-> "idle", new_id |-> 0, type |-> "NONE", key |-> << >>,
              retn |-> "NONE", res |-> {}]

\* namespace.c: the counter and the registry before any domain is made.
InitNs ==
    /\ context_id = 0
    /\ context_id_list = << >>
    /\ context_id_mutex = 0
    /\ domains = << >>
    /\ creator = [t \in Tasks |-> NoCreator]

NoHook == [calls |-> 0, call |-> "NONE", retn |-> "NONE", trust |-> "NONE"]

\* kref_init(&new_ctx->kref) in tsem_ns_create: one reference, that of the
\* task that made the domain; no PCR extension is queued and no hook ran.
InitLifetime ==
    /\ tpm_update_wq = [work |-> << >>, pcr |-> 0, failed |-> FALSE]
    /\ hook = NoHook
    /\ ns = [kref |-> 1, work |-> 0, ran |-> 0, gets |-> 0]
    /\ have_aggregate = FALSE

Init ==
    /\ InitDomain /\ InitTasks /\ InitPeer /\ InitFiles /\ InitMappings
    /\ InitMagazine("point") /\ InitExternal /\ InitNs /\ InitLifetime

(***************************************************************************)
(* model.c: tsem_model_event() and its helpers.                            *)
(***************************************************************************)

\* alloc_event_point(model, locked): the slot taken from the magazine in
\* locked context (MagazineSize: none is free), -1 for an object from
\* kmem_cache_zalloc() in blocking context.
alloc_event_point(bits, locked) ==
    IF ~locked THEN -1 ELSE find_first_zero_bit(bits, MagazineSize)

\* alloc_event_point() returned an object and not NULL.
alloc_ok(slot) == slot < MagazineSize

\* add_event_point() returns the entry or ERR_PTR(-ENOMEM), never NULL: the
\* callers' tests "if (point)" and "if (!add_event_point(...))" see a
\* pointer that is set in both cases.
point_is_set(slot) == TRUE

branch_always_trajectory(sealed_) == FALSE

branch_always_forensic(sealed_) == TRUE

\* tsem_model_event(), line 444: if (ctx->sealed).
forensic_branch(sealed_) == sealed_

hit_count_unchanged(entry) == entry

\* tsem_model_event(), line 433: ++point->count.
hit_entry(entry) == [entry EXCEPT !.count = @ + 1]

\* tsem_model_event() as one call of task t with the event ep.
tsem_model_event(t, ep) ==
    LET found == have_point(point_list, ep.mapping) IN
    IF found # 0
    THEN /\ point_list' = [point_list EXCEPT ![found] = hit_entry(@)]
         /\ trust_status' = IF ~point_list[found].valid
                            THEN [trust_status EXCEPT ![t] = TSEM_TASK_UNTRUSTED]
                            ELSE trust_status
         /\ UNCHANGED <<measurement, chain, magazine_index, point_count,
                        trajectory_list, forensics_list, faults>>
    ELSE LET slot == alloc_event_point(magazine_index, ep.locked)
             valid == ~forensic_branch(sealed)
         IN /\ measurement' = update_events_measurement(measurement, base,
                                                        ep.mapping)
            /\ chain' = Append(chain, <<base, ep.mapping>>)
            /\ magazine_index' = IF ep.locked /\ alloc_ok(slot)
                                 THEN magazine_index \cup {slot}
                                 ELSE magazine_index
            /\ point_list' = IF alloc_ok(slot)
                             THEN Append(point_list,
                                         [point |-> ep.mapping,
                                          valid |-> valid, count |-> 1])
                             ELSE point_list
            /\ point_count' = IF alloc_ok(slot) THEN point_count + 1
                              ELSE point_count
            /\ IF alloc_ok(slot) \/ point_is_set(slot)
               THEN IF forensic_branch(sealed)
                    THEN /\ forensics_list' = Append(forensics_list, ep)
                         /\ trust_status' =
                              [trust_status EXCEPT ![t] = TSEM_TASK_UNTRUSTED]
                         /\ UNCHANGED trajectory_list
                    ELSE /\ trajectory_list' = Append(trajectory_list, ep)
                         /\ UNCHANGED <<forensics_list, trust_status>>
               ELSE UNCHANGED <<trajectory_list, forensics_list, trust_status>>
            \* line 457: ++point->count with point = ERR_PTR(-ENOMEM).
            /\ faults' = IF ~alloc_ok(slot) /\ point_is_set(slot)
                         THEN faults \cup {ep.id}
                         ELSE faults

\* The task whose calls the sequential specification follows.
current == CHOOSE t \in Tasks : \A u \in Tasks : t <= u

ModelEvent(c, lk) ==
    /\ nevents < MaxEvents
    /\ nevents' = nevents + 1
    /\ submitted' = Append(submitted, [mapping |-> c, locked |-> lk])
    /\ tsem_model_event(current,
                        [id |-> nevents + 1, mapping |-> c, locked |-> lk])
    /\ UNCHANGED <<have_tpm, ctx_id, sealed, base, state>>
    /\ UNCHANGED <<tvars, xvars>>

\* refill_point_magazine(): the worker queued for a consumed slot installs
\* a fresh object and clears the slot's bit.
refill_point_magazine(index) ==
    /\ index \in magazine_index
    /\ magazine_index' = magazine_index \ {index}
    /\ UNCHANGED <<have_tpm, ctx_id, sealed, base, measurement, state,
                   point_list, point_count, trajectory_list, forensics_list,
                   trust_status, nevents, submitted, chain, faults>>
    /\ UNCHANGED <<tvars, xvars>>

\* The control surface's seal operation: ctx->sealed = true.
tsem_seal ==
    /\ ~sealed
    /\ sealed' = TRUE
    /\ UNCHANGED <<have_tpm, ctx_id, base, measurement, state, point_list,
                   point_count, trajectory_list, forensics_list,
                   magazine_index, trust_status, nevents, submitted, chain,
                   faults>>
    /\ UNCHANGED <<tvars, xvars>>

\* tsem_model_load_base(mapping).
tsem_model_load_base(mapping) ==
    /\ base # mapping
    /\ base' = mapping
    /\ UNCHANGED <<have_tpm, ctx_id, sealed, measurement, state, point_list,
                   point_count, trajectory_list, forensics_list,
                   magazine_index, trust_status, nevents, submitted, chain,
                   faults>>
    /\ UNCHANGED <<tvars, xvars>>

NextSeq ==
    \/ \E c \in Coeffs, lk \in BOOLEAN : ModelEvent(c, lk)
    \/ \E index \in 0..(MagazineSize - 1) : refill_point_magazine(index)
    \/ tsem_seal
    \/ \E b \in BaseValues : tsem_model_load_base(b)

vars == <<dvars, tvars, xvars>>

\* One domain whose calls run one after the other.
Spec == Init /\ [][NextSeq]_vars

(***************************************************************************)
(* tsem_model_event() run by several tasks of one domain at a time.  A     *)
(* task takes one step for each access to shared state: the search under   *)
(* point_lock, the unlocked reads and writes of model->measurement and of  *)
(* point->count, the allocation under magazine_lock, the insertion under   *)
(* point_lock and the append under trajectory_lock or forensics_lock.      *)
(***************************************************************************)
ddvars == <<have_tpm, ctx_id, sealed, base, state>>

\* The call of task t returns: its local variables are dead.
ev_return(t) ==
    /\ pc' = [pc EXCEPT ![t] = "idle"]
    /\ cur_ep' = [cur_ep EXCEPT ![t] = NoEvent]
    /\ cur_point' = [cur_point EXCEPT ![t] = 0]
    /\ cur_sealed' = [cur_sealed EXCEPT ![t] = FALSE]
    /\ cur_tmp' = [cur_tmp EXCEPT ![t] = 0]

\* tsem_model_event(ep) is entered.
ev_call(t, c, lk) ==
    /\ pc[t] = "idle"
    /\ UNCHANGED xvars
    /\ nevents < MaxCalls
    /\ nevents' = nevents + 1
    /\ submitted' = Append(submitted, [mapping |-> c, locked |-> lk])
    /\ cur_ep' = [cur_ep EXCEPT
                    ![t] = [id |-> nevents + 1, mapping |-> c, locked |-> lk]]
    /\ pc' = [pc EXCEPT ![t] = "have_point"]
    /\ UNCHANGED <<ddvars, measurement, point_list, point_count,
                   trajectory_list, forensics_list, magazine_index,
                   trust_status, chain, faults, cur_point, cur_sealed, cur_tmp>>

\* line 431: point = have_point(ep->mapping), under point_lock.
ev_have_point(t) ==
    /\ pc[t] = "have_point"
    /\ UNCHANGED xvars
    /\ LET found == have_point(point_list, cur_ep[t].mapping)
       IN /\ cur_point' = [cur_point EXCEPT ![t] = found]
          /\ pc' = [pc EXCEPT ![t] = IF found # 0 THEN "hit_load"
                                     ELSE "measure_read"]
    /\ UNCHANGED <<dvars, cur_ep, cur_sealed, cur_tmp>>

\* line 433: ++point->count, the load.
ev_hit_load(t) ==
    /\ pc[t] = "hit_load"
    /\ UNCHANGED xvars
    /\ cur_tmp' = [cur_tmp EXCEPT ![t] = point_list[cur_point[t]].count]
    /\ pc' = [pc EXCEPT ![t] = "hit_store"]
    /\ UNCHANGED <<dvars, cur_ep, cur_point, cur_sealed>>

\* lines 433-436: ++point->count, the store; the trust status; return 0.
ev_hit_store(t) ==
    /\ pc[t] = "hit_store"
    /\ UNCHANGED xvars
    /\ point_list' = [point_list EXCEPT ![cur_point[t]].count = cur_tmp[t] + 1]
    /\ trust_status' = IF ~point_list[cur_point[t]].valid
                       THEN [trust_status EXCEPT ![t] = TSEM_TASK_UNTRUSTED]
                       ELSE trust_status
    /\ ev_return(t)
    /\ UNCHANGED <<ddvars, measurement, point_count, trajectory_list,
                   forensics_list, magazine_index, nevents, submitted, chain,
                   faults>>

\* update_events_measurement(), line 252: model->measurement is read.
ev_measure_read(t) ==
    /\ pc[t] = "measure_read"
    /\ UNCHANGED xvars
    /\ cur_tmp' = [cur_tmp EXCEPT ![t] = measurement]
    /\ pc' = [pc EXCEPT ![t] = "measure_write"]
    /\ UNCHANGED <<dvars, cur_ep, cur_point, cur_sealed>>

\* update_events_measurement(), line 257: model->measurement is written.
ev_measure_write(t) ==
    /\ pc[t] = "measure_write"
    /\ UNCHANGED xvars
    /\ measurement' = update_events_measurement(cur_tmp[t], base,
                                                cur_ep[t].mapping)
    /\ chain' = Append(chain, <<base, cur_ep[t].mapping>>)
    /\ pc' = [pc EXCEPT ![t] = "alloc"]
    /\ UNCHANGED <<ddvars, point_list, point_count, trajectory_list,
                   forensics_list, magazine_index, trust_status, nevents,
                   submitted, faults, cur_ep, cur_point, cur_sealed, cur_tmp>>

\* line 444: ctx->sealed is read; add_event_point(), line 171: the entry is
\* allocated, from the magazine under magazine_lock in locked context.
ev_alloc(t) ==
    /\ pc[t] = "alloc"
    /\ UNCHANGED xvars
    /\ LET slot == alloc_event_point(magazine_index, cur_ep[t].locked)
       IN /\ cur_sealed' = [cur_sealed EXCEPT ![t] = forensic_branch(sealed)]
          /\ magazine_index' = IF cur_ep[t].locked /\ alloc_ok(slot)
                               THEN magazine_index \cup {slot}
                               ELSE magazine_index
          /\ cur_point' = [cur_point EXCEPT
                             ![t] = IF alloc_ok(slot) THEN 0 ELSE -1]
          /\ pc' = [pc EXCEPT ![t] = IF alloc_ok(slot) THEN "insert"
                                     ELSE "list"]
    /\ UNCHANGED <<ddvars, measurement, point_list, point_count,
                   trajectory_list, forensics_list, trust_status, nevents,
                   submitted, chain, faults, cur_ep, cur_tmp>>

\* add_event_point(), lines 178-181: the entry is appended under point_lock.
ev_insert(t) ==
    /\ pc[t] = "insert"
    /\ UNCHANGED xvars
    /\ point_list' = Append(point_list, [point |-> cur_ep[t].mapping,
                                         valid |-> ~cur_sealed[t],
                                         count |-> 0])
    /\ point_count' = point_count + 1
    /\ cur_point' = [cur_point EXCEPT ![t] = Len(point_list) + 1]
    /\ pc' = [pc EXCEPT ![t] = "list"]
    /\ UNCHANGED <<ddvars, measurement, trajectory_list, forensics_list,
                   magazine_index, trust_status, nevents, submitted, chain,
                   faults, cur_ep, cur_sealed, cur_tmp>>

\* lines 446-453: add_forensic_point() or add_trajectory_point(); point is
\* set, be it an entry or ERR_PTR(-ENOMEM).
ev_list(t) ==
    /\ pc[t] = "list"
    /\ UNCHANGED xvars
    /\ IF cur_sealed[t]
       THEN /\ forensics_list' = Append(forensics_list, cur_ep[t])
            /\ trust_status' = [trust_status EXCEPT ![t] = TSEM_TASK_UNTRUSTED]
            /\ UNCHANGED trajectory_list
       ELSE /\ trajectory_list' = Append(trajectory_list, cur_ep[t])
            /\ UNCHANGED <<forensics_list, trust_status>>
    /\ pc' = [pc EXCEPT ![t] = "count_load"]
    /\ UNCHANGED <<ddvars, measurement, point_list, point_count,
                   magazine_index, nevents, submitted, chain, faults, cur_ep,
                   cur_point, cur_sealed, cur_tmp>>

\* line 457: ++point->count, the load; through ERR_PTR(-ENOMEM) it faults
\* and the call ends there.
ev_count_load(t) ==
    /\ pc[t] = "count_load"
    /\ UNCHANGED xvars
    /\ IF cur_point[t] = -1
       THEN /\ faults' = faults \cup {cur_ep[t].id}
            /\ ev_return(t)
       ELSE /\ cur_tmp' = [cur_tmp EXCEPT ![t] = point_list[cur_point[t]].count]
            /\ pc' = [pc EXCEPT ![t] = "count_store"]
            /\ UNCHANGED <<faults, cur_ep, cur_point, cur_sealed>>
    /\ UNCHANGED <<ddvars, measurement, point_list, point_count,
                   trajectory_list, forensics_list, magazine_index,
                   trust_status, nevents, submitted, chain>>

\* line 457: ++point->count, the store; return 0.
ev_count_store(t) ==
    /\ pc[t] = "count_store"
    /\ UNCHANGED xvars
    /\ point_list' = [point_list EXCEPT ![cur_point[t]].count = cur_tmp[t] + 1]
    /\ ev_return(t)
    /\ UNCHANGED <<ddvars, measurement, point_count, trajectory_list,
                   forensics_list, magazine_index, trust_status, nevents,
                   submitted, chain, faults>>

NextConc ==
    \/ \E t \in Tasks, c \in Coeffs, lk \in BOOLEAN : ev_call(t, c, lk)
    \/ \E t \in Tasks : ev_have_point(t)
    \/ \E t \in Tasks : ev_hit_load(t)
    \/ \E t \in Tasks : ev_hit_store(t)
    \/ \E t \in Tasks : ev_measure_read(t)
    \/ \E t \in Tasks : ev_measure_write(t)
    \/ \E t \in Tasks : ev_alloc(t)
    \/ \E t \in Tasks : ev_insert(t)
    \/ \E t \in Tasks : ev_list(t)
    \/ \E t \in Tasks : ev_count_load(t)
    \/ \E t \in Tasks : ev_count_store(t)
    \/ \E index \in 0..(MagazineSize - 1) : refill_point_magazine(index)
    \/ tsem_seal

\* One domain whose tasks run tsem_model_event concurrently.
SpecConc == Init /\ [][NextConc]_vars

\* C1: the coefficient list never holds two entries with the same
\* coefficient.
C1_NoDuplicatePoints ==
    \A i, j \in 1..Len(point_list) :
        point_list[i].point = point_list[j].point => i = j

(***************************************************************************)
(* Properties of one domain whose calls run one after the other.           *)
(***************************************************************************)

\* The coefficient c is in the coefficient list.
InSet(plist, c) == \E i \in 1..Len(plist) : plist[i].point = c

\* The step is a tsem_model_event call.
IsCall == nevents' = nevents + 1

\* The call the step makes.
Call == submitted'[nevents']

\* The event of the call the step makes.
CallEvent == [id |-> nevents', mapping |-> Call.mapping, locked |-> Call.locked]

\* C2: a tsem_model_event call whose coefficient is already in the set leaves
\* the set, point_count, the trajectory, the forensics, the measurement and
\* the state unchanged, and adds exactly one to the count of the matching
\* entry and to nothing else; two identical submissions to a new domain give
\* one entry of count 2, one listed event and the single-event measurement.
C2_Idempotence ==
    /\ [][ (IsCall /\ InSet(point_list, Call.mapping)) =>
             /\ Len(point_list') = Len(point_list)
             /\ point_count' = point_count
             /\ trajectory_list' = trajectory_list
             /\ forensics_list' = forensics_list
             /\ measurement' = measurement
             /\ tsem_model_compute_state(base', tsem_trust_aggregate(have_tpm'),
                                         point_list', point_count')
                = tsem_model_compute_state(base, tsem_trust_aggregate(have_tpm),
                                           point_list, point_count)
             /\ \E i \in 1..Len(point_list) :
                  /\ point_list[i].point = Call.mapping
                  /\ point_list'[i] =
                       [point_list[i] EXCEPT !.count = point_list[i].count + 1]
                  /\ \A j \in 1..Len(point_list) :
                       j # i => point_list'[j] = point_list[j]
          ]_vars
    /\ [](( /\ Len(submitted) = 2
            /\ submitted[1].mapping = submitted[2].mapping )
          => /\ Len(point_list) = 1
             /\ point_list[1].count = 2
             /\ Len(trajectory_list) + Len(forensics_list) = 1
             /\ \E b \in BaseValues \cup {ZeroBytes} :
                  measurement =
                    update_events_measurement(
                      IF ctx_id = 0 THEN ZeroBytes
                      ELSE tsem_model_add_aggregate(ZeroBytes, ZeroBytes,
                                                    have_tpm),
                      b, submitted[1].mapping))

\* C2: a coefficient was submitted again and its entry counts two.
C2_Witness ==
    \E i \in 1..Len(point_list) :
        /\ point_list[i].count = 2
        /\ Cardinality({k \in 1..Len(submitted) :
                          submitted[k].mapping = point_list[i].point}) = 2

\* C3: in an unsealed domain every event whose call was not answered from
\* the set is in the trajectory exactly once, and every trajectory entry has
\* its coefficient in the set with valid = true.
C3_TrajectoryBijection ==
    ~sealed =>
      /\ \A i \in 1..Len(trajectory_list) :
           \E j \in 1..Len(point_list) :
              /\ point_list[j].point = trajectory_list[i].mapping
              /\ point_list[j].valid
      /\ \A i, k \in 1..Len(trajectory_list) :
           trajectory_list[i].id = trajectory_list[k].id => i = k
      /\ \A j \in 1..Len(point_list) :
           Cardinality({i \in 1..Len(trajectory_list) :
                          trajectory_list[i].mapping = point_list[j].point}) = 1

\* C4: a tsem_model_event call in a sealed domain with a coefficient that is
\* not in the set inserts the coefficient with valid = false, appends the
\* event to the forensics and not to the trajectory, and sets the caller's
\* trust status to UNTRUSTED.
C4_ForensicCapture ==
    [][ (IsCall /\ sealed /\ ~InSet(point_list, Call.mapping)) =>
          /\ \E j \in 1..Len(point_list') :
               /\ point_list'[j].point = Call.mapping
               /\ ~point_list'[j].valid
          /\ Len(point_list') = Len(point_list) + 1
          /\ forensics_list' = Append(forensics_list, CallEvent)
          /\ trajectory_list' = trajectory_list
          /\ trust_status'[current] = TSEM_TASK_UNTRUSTED
      ]_vars

\* The left fold m <- H(m || H(base || c)) over <<base, c>> pairs.
RECURSIVE MeasureFold(_, _)
MeasureFold(m, pairs) ==
    IF pairs = << >> THEN m
    ELSE MeasureFold(<<"H", <<m, <<"H", <<Head(pairs)[1], Head(pairs)[2]>> >> >> >>,
                     Tail(pairs))

\* The distinct coefficients of the calls, in order of first submission.
RECURSIVE FirstSubmissions(_, _)
FirstSubmissions(calls, seen) ==
    IF calls = << >> THEN << >>
    ELSE IF Head(calls).mapping \in seen
         THEN FirstSubmissions(Tail(calls), seen)
         ELSE <<Head(calls).mapping>>
              \o FirstSubmissions(Tail(calls), seen \cup {Head(calls).mapping})

SeedLen == IF ctx_id = 0 THEN 0 ELSE 1

C9_SealOneWay ==
    /\ [][sealed => sealed']_vars
    /\ [][ (IsCall /\ sealed /\ ~InSet(point_list, Call.mapping)) =>
             /\ forensics_list' = Append(forensics_list, CallEvent)
             /\ trajectory_list' = trajectory_list
         ]_vars

\* C9: an event was captured in the forensics of a sealed domain that had
\* admitted an event before it was sealed.
C9_Witness ==
    /\ sealed
    /\ Len(forensics_list) > 0
    /\ Len(trajectory_list) > 0

(***************************************************************************)
(* Two domains, one modeled after the other: a stream of events is         *)
(* submitted to the first and its state is computed; tsem_ns_create makes  *)
(* the second, a stream is submitted to it and its state is computed.      *)
(***************************************************************************)

\* A tsem_model_event call of the stream of the domain being modeled.
StreamEvent(c, lk) ==
    /\ peer.phase \in {"first", "second"}
    /\ nevents < MaxStream
    /\ ModelEvent(c, lk)

StreamRefill(index) ==
    /\ peer.phase \in {"first", "second"}
    /\ refill_point_magazine(index)

\* The base of a domain is loaded before its stream starts.
StreamLoadBase(b) ==
    /\ peer.phase \in {"first", "second"}
    /\ nevents = 0
    /\ tsem_model_load_base(b)

\* tsem_model_compute_state() at the end of the stream.
ComputeState ==
    /\ peer.phase \in {"first", "second"}
    /\ state' = tsem_model_compute_state(base, tsem_trust_aggregate(have_tpm),
                                         point_list, point_count)
    /\ peer' = [peer EXCEPT !.phase = IF @ = "first" THEN "first_done"
                                      ELSE "second_done"]
    /\ UNCHANGED <<have_tpm, ctx_id, sealed, base, measurement, point_list,
                   point_count, trajectory_list, forensics_list,
                   magazine_index, trust_status, nevents, submitted, chain,
                   faults>>
    /\ UNCHANGED <<tvars, fvars, mappings, mvars, evars, nvars, lvars>>

\* tsem_ns_create(): a new domain with a zeroed model, a full magazine and
\* the platform aggregate folded into its measurement; the domain modeled
\* so far is kept for comparison.
tsem_ns_create ==
    /\ peer.phase = "first_done"
    /\ peer' = [phase |-> "second", state |-> state, base |-> base,
                calls |-> submitted,
                points |-> [i \in 1..Len(point_list) |-> point_list[i].point]]
    /\ ctx_id' = 1
    /\ sealed' = FALSE
    /\ base' = ZeroBytes
    /\ measurement' = tsem_model_add_aggregate(ZeroBytes, ZeroBytes, have_tpm)
    /\ state' = ZeroBytes
    /\ point_list' = << >>
    /\ point_count' = 0
    /\ trajectory_list' = << >>
    /\ forensics_list' = << >>
    /\ magazine_index' = {}
    /\ nevents' = 0
    /\ submitted' = << >>
    /\ chain' = << <<ZeroBytes, tsem_trust_aggregate(have_tpm)>> >>
    /\ faults' = {}
    /\ UNCHANGED <<have_tpm, trust_status>>
    /\ UNCHANGED <<tvars, fvars, mappings, mvars, evars, nvars, lvars>>

NextState ==
    \/ \E c \in Coeffs, lk \in BOOLEAN : StreamEvent(c, lk)
    \/ \E index \in 0..(MagazineSize - 1) : StreamRefill(index)
    \/ \E b \in BaseValues : StreamLoadBase(b)
    \/ ComputeState
    \/ tsem_ns_create

\* The first domain is the root domain of a platform with a TPM.
InitState == Init /\ ctx_id = 0 /\ have_tpm

SpecState == InitState /\ [][NextState]_vars

\* The number of times x occurs in the sequence s.
Occurrences(s, x) == Cardinality({i \in 1..Len(s) : s[i] = x})

\* The sequences s and t are permutations of one multiset.
IsPermutation(s, t) ==
    /\ Len(s) = Len(t)
    /\ \A i \in 1..Len(s) : Occurrences(s, s[i]) = Occurrences(t, s[i])

\* The coefficients of the coefficient list, in insertion order.
Points == [i \in 1..Len(point_list) |-> point_list[i].point]

\* Both domains have been modeled and have the same base.
BothComputed == peer.phase = "second_done" /\ peer.base = base

LengthBytes(n) == <<"N", n>>

strlen(str) == Len(str[2])

\* add_file_name(): ep->file.name, the digest of the pathname.
add_file_name(pathname) == Hash(<<pathname>>)

generate_pseudonym_of_pathname(name_length, name, pathname) ==
    Hash(<<LengthBytes(name_length), pathname>>)

\* generate_pseudonym(): the digest of ep->name_length followed by the
\* tsem_digestsize() bytes of ep->name.
generate_pseudonym(name_length, name, pathname) ==
    Hash(<<LengthBytes(name_length), name>>)

\* tsem_model_has_pseudonym(): 1 when the pseudonym of the file is in the
\* list, 0 otherwise.
tsem_model_has_pseudonym(plist, name_length, name, pathname) ==
    IF \E i \in 1..Len(plist) :
          plist[i] = generate_pseudonym(name_length, name, pathname)
    THEN 1 ELSE 0

\* get_file_digest(): the digest of the bytes of the file.
get_file_digest(content) == Hash(<<content>>)

iversion_not_compared(i_version, old) == TRUE

\* inode_eq_iversion(inode, digest->version): the inode's version is the
\* one the digest was collected at.
inode_eq_iversion(i_version, old) == i_version = old

\* add_file_digest(): [retn, digest, read, inode] for the file at the inode
\* ino, where read_ok tells whether integrity_kernel_read succeeds.
add_file_digest(plist, ino, name_length, name, pathname, read_ok) ==
    IF tsem_model_has_pseudonym(plist, name_length, name, pathname) = 1
    THEN [retn |-> 0, digest |-> zero_digest, read |-> FALSE, inode |-> ino]
    ELSE IF strlen(ino.content) = 0
    THEN [retn |-> 0, digest |-> zero_digest, read |-> FALSE, inode |-> ino]
    ELSE IF /\ ino.has_digest
            /\ inode_eq_iversion(ino.i_version, ino.version)
            /\ ino.status = "COLLECTED"
    THEN [retn |-> 0, digest |-> ino.value, read |-> FALSE, inode |-> ino]
    ELSE IF ~read_ok
    THEN [retn |-> -1, digest |-> ZeroBytes, read |-> TRUE,
          inode |-> [ino EXCEPT !.status = "NONE"]]
    ELSE [retn |-> 0, digest |-> get_file_digest(ino.content), read |-> TRUE,
          inode |-> [ino EXCEPT !.status = "COLLECTED", !.has_digest = TRUE,
                                !.value = get_file_digest(ino.content),
                                !.version = ino.i_version]]

FileEvents == {"TSEM_FILE_OPEN", "TSEM_BPRM_SET_CREDS", "TSEM_MMAP_FILE"}

\* tsem_event_init() for an event on the file at pathname; anonymous is
\* ep->CELL.mmap_file.anonymous of a TSEM_MMAP_FILE event.
tsem_event_init_file(event, pathname, anonymous, read_ok) ==
    /\ anonymous => event = "TSEM_MMAP_FILE"
    /\ IF anonymous
       THEN /\ file_event' =
                 [event |-> event, anonymous |-> TRUE, pathname |-> Str(0),
                  name_length |-> 0, name |-> ZeroBytes, digest |-> ZeroBytes,
                  read |-> FALSE, pseudonyms |-> pseudonym_list]
            /\ UNCHANGED inode
       ELSE LET name_length == strlen(pathname)
                name == add_file_name(pathname)
                got == add_file_digest(pseudonym_list, inode[pathname],
                                       name_length, name, pathname, read_ok)
            IN /\ inode' = [inode EXCEPT ![pathname] = got.inode]
               /\ file_event' =
                    IF got.retn # 0 THEN file_event
                    ELSE [event |-> event, anonymous |-> FALSE,
                          pathname |-> pathname, name_length |-> name_length,
                          name |-> name, digest |-> got.digest,
                          read |-> got.read, pseudonyms |-> pseudonym_list]
    /\ UNCHANGED <<dvars, tvars, peer, pseudonym_list, mappings, mvars,
                   evars, nvars, lvars>>

\* tsem_model_load_pseudonym(mapping).
tsem_model_load_pseudonym(mapping) ==
    /\ Len(pseudonym_list) < MaxPseudonyms
    /\ pseudonym_list' = Append(pseudonym_list, mapping)
    /\ UNCHANGED <<dvars, tvars, peer, inode, file_event, mappings, mvars,
                   evars, nvars, lvars>>

\* The file at pathname is written: its bytes and its i_version change.
write_file(pathname, content) ==
    /\ inode[pathname].i_version < MaxWrites
    /\ inode[pathname].content # content
    /\ inode' = [inode EXCEPT ![pathname].content = content,
                              ![pathname].i_version = @ + 1]
    /\ UNCHANGED <<dvars, tvars, peer, pseudonym_list, file_event, mappings,
                   mvars, evars, nvars, lvars>>

\* The digest of the integer len(name) followed by the bytes of the
\* pathname.
PathPseudonym(pathname) ==
    <<"H", << <<"N", Len(pathname[2])>>, pathname >> >>

\* The digest of the integer len(name) followed by the digest of the bytes
\* of the pathname.
NamePseudonym(pathname) ==
    <<"H", << <<"N", Len(pathname[2])>>, <<"H", <<pathname>> >> >> >>

Mappings == {PathPseudonym(p) : p \in Paths} \cup {NamePseudonym(p) : p \in Paths}

NextPseudo ==
    \/ \E e \in FileEvents, p \in Paths, a, ok \in BOOLEAN :
          tsem_event_init_file(e, p, a, ok)
    \/ \E mapping \in Mappings : tsem_model_load_pseudonym(mapping)
    \/ \E p \in Paths, c \in Contents : write_file(p, c)

\* An internal domain made by tsem_ns_create on a platform without a TPM.
InitInternal == Init /\ ctx_id = 1 /\ ~have_tpm

SpecPseudo == InitInternal /\ [][NextPseudo]_vars

InList(list, x) == \E i \in 1..Len(list) : list[i] = x

\* C7 as stated: after tsem_model_load_pseudonym(p) with p the digest of
\* len(name) || name for a path name, every later file-bearing event on the
\* path has content_digest = zero_digest and is made without reading the
\* file.
C7_PathPseudonymEffect ==
    LET e == file_event IN
    (e.event \in FileEvents /\ ~e.anonymous
       /\ InList(e.pseudonyms, PathPseudonym(e.pathname)))
      => (e.digest = zero_digest /\ ~e.read)

\* C7 as amended: after tsem_model_load_pseudonym(p) with p the digest of
\* len(name) || H(name), the length of the path name followed by the digest
\* of the path name, every later file-bearing event (FILE_OPEN,
\* BPRM_SET_CREDS, file-backed MMAP_FILE) on the path in that internal
\* domain has content_digest = zero_digest and is made without reading the
\* file, whatever the bytes of the file.
C7_PseudonymEffect ==
    LET e == file_event IN
    (e.event \in FileEvents /\ ~e.anonymous
       /\ InList(e.pseudonyms, NamePseudonym(e.pathname)))
      => (e.digest = zero_digest /\ ~e.read)

\* C7: an event was made on a file that is not empty, whose bytes had been
\* hashed and cached before, and whose pseudonym was loaded.
C7_Witness ==
    /\ file_event.event \in FileEvents
    /\ ~file_event.anonymous
    /\ InList(file_event.pseudonyms, NamePseudonym(file_event.pathname))
    /\ strlen(inode[file_event.pathname].content) > 0
    /\ inode[file_event.pathname].status = "COLLECTED"
    /\ file_event.digest = zero_digest

(***************************************************************************)
(* map.c: the mapping of an event description into a coefficient.          *)
(***************************************************************************)

\* (u8 *) &field, sizeof(field): the bytes of an integer field.
FieldBytes(x) == <<"N", x>>

\* tsem_names[event]: the name of an event type.
tsem_names(event) == <<"T", event>>

AF_INET == "AF_INET"
AF_INET6 == "AF_INET6"
AF_UNIX == "AF_UNIX"
AF_OTHER == "AF_PACKET"

\* get_COE_mapping().
get_COE_mapping(COE) ==
    Hash(<<FieldBytes(COE.uid), FieldBytes(COE.euid), FieldBytes(COE.suid),
           FieldBytes(COE.gid), FieldBytes(COE.egid), FieldBytes(COE.sgid),
           FieldBytes(COE.fsuid), FieldBytes(COE.fsgid),
           FieldBytes(COE.capeff)>>)

\* get_cell_mapping(), lines 133-181: the file block.
file_cell(file) ==
    <<FieldBytes(file.flags), FieldBytes(file.uid), FieldBytes(file.gid),
      FieldBytes(file.mode), FieldBytes(file.name_length), file.name,
      FieldBytes(file.s_magic), FieldBytes(file.s_id),
      FieldBytes(file.s_uuid), file.digest>>

\* get_cell_mapping(), lines 209-262: a socket connect or bind.
socket_connect_cell(scp) ==
    <<FieldBytes(scp.family)>> \o
    CASE scp.family = AF_INET ->
           <<FieldBytes(scp.port), FieldBytes(scp.addr)>>
      [] scp.family = AF_INET6 ->
           <<FieldBytes(scp.port), FieldBytes(scp.addr),
             FieldBytes(scp.flowinfo), FieldBytes(scp.scope_id)>>
      [] scp.family = AF_UNIX -> <<scp.path>>
      [] OTHER -> <<scp.mapping>>

\* get_cell_mapping(), lines 264-328: a socket accept.
socket_accept_cell(sap) ==
    <<FieldBytes(sap.family), FieldBytes(sap.type), FieldBytes(sap.port)>> \o
    CASE sap.family \in {AF_INET, AF_INET6} -> <<FieldBytes(sap.addr)>>
      [] sap.family = AF_UNIX -> <<sap.path>>
      [] OTHER -> <<sap.mapping>>

\* get_cell_mapping(): what the buffer cell_mapping of map_event holds
\* afterwards, where stack is what it held before.  The default branch of
\* the switch (lines 364-365) returns 0 without writing the buffer.
get_cell_mapping(ep, stack) ==
    CASE ep.event = "TSEM_MMAP_FILE" /\ ~ep.CELL.has_file ->
           Hash(<<FieldBytes(ep.CELL.reqprot), FieldBytes(ep.CELL.prot),
                  FieldBytes(ep.CELL.flags)>>)
      [] ep.event = "TSEM_MMAP_FILE" /\ ep.CELL.has_file ->
           Hash(<<FieldBytes(ep.CELL.reqprot), FieldBytes(ep.CELL.prot),
                  FieldBytes(ep.CELL.flags)>> \o file_cell(ep.file))
      [] ep.event \in {"TSEM_FILE_OPEN", "TSEM_BPRM_SET_CREDS"} ->
           Hash(file_cell(ep.file))
      [] ep.event = "TSEM_SOCKET_CREATE" ->
           Hash(<<FieldBytes(ep.CELL.family), FieldBytes(ep.CELL.type),
                  FieldBytes(ep.CELL.protocol), FieldBytes(ep.CELL.kern)>>)
      [] ep.event \in {"TSEM_SOCKET_CONNECT", "TSEM_SOCKET_BIND"} ->
           Hash(socket_connect_cell(ep.CELL))
      [] ep.event = "TSEM_SOCKET_ACCEPT" ->
           Hash(socket_accept_cell(ep.CELL))
      [] ep.event = "TSEM_TASK_KILL" ->
           Hash(<<FieldBytes(ep.CELL.cross_model), FieldBytes(ep.CELL.signal),
                  ep.CELL.target>>)
      [] ep.event = "TSEM_GENERIC_EVENT" ->
           Hash(<<tsem_names(ep.CELL.event_type), zero_digest>>)
      [] OTHER -> stack

\* get_event_mapping().
get_event_mapping(event, task_id, COE_id, cell_id) ==
    Hash(<<tsem_names(event), task_id, COE_id, cell_id>>)

\* map_event(): ep->mapping, where stack is what the memory of the local
\* buffer cell_mapping holds on entry.
map_event(event, ep, task_id, stack) ==
    get_event_mapping(event, task_id, get_COE_mapping(ep.COE),
                      get_cell_mapping(ep, stack))

\* The event descriptions that tsem_event_init returns.
\* The tasks that make events: task_id, and the COE that get_COE() reads
\* from the credentials of the task.
Subjects ==
    {[task_id |-> B(u + 1),
      COE |-> [uid |-> u, euid |-> u, suid |-> u, gid |-> 0, egid |-> 0,
               sgid |-> 0, fsuid |-> u, fsgid |-> 0, capeff |-> 0]] :
       u \in 0..1}

NoFile == [flags |-> 0, uid |-> 0, gid |-> 0, mode |-> 0, name_length |-> 0,
           name |-> ZeroBytes, s_magic |-> 0, s_id |-> 0, s_uuid |-> 0,
           digest |-> ZeroBytes]

FileBlocks ==
    {[NoFile EXCEPT !.name_length = strlen(Str(1)),
                    !.name = add_file_name(Str(1)), !.digest = d] :
       d \in {zero_digest, get_file_digest(Str(1))}}

SocketAddresses ==
    {[family |-> AF_INET, port |-> 1, addr |-> 1],
     [family |-> AF_INET6, port |-> 1, addr |-> 1, flowinfo |-> 0,
      scope_id |-> 0],
     [family |-> AF_UNIX, path |-> Str(1)],
     [family |-> AF_OTHER, mapping |-> Hash(<<Str(2)>>)]}

AcceptAddresses ==
    {[family |-> AF_INET, type |-> 1, port |-> 1, addr |-> 1],
     [family |-> AF_INET6, type |-> 1, port |-> 1, addr |-> 1],
     [family |-> AF_UNIX, type |-> 1, port |-> 0, path |-> Str(1)],
     [family |-> AF_OTHER, type |-> 1, port |-> 0, mapping |-> zero_digest]}

\* The event types with a case in the switch of tsem_event_init, each with
\* its CELL and file block, and one of the other values of
\* enum tsem_event_type, which the default branch lets through.
Cells ==
    {[event |-> e, CELL |-> [has_file |-> TRUE], file |-> f] :
       e \in {"TSEM_FILE_OPEN", "TSEM_BPRM_SET_CREDS"}, f \in FileBlocks}
    \cup {[event |-> "TSEM_MMAP_FILE",
           CELL |-> [reqprot |-> 1, prot |-> 1, flags |-> 2,
                     has_file |-> TRUE],
           file |-> f] : f \in FileBlocks}
    \cup {[event |-> "TSEM_MMAP_FILE",
           CELL |-> [reqprot |-> 1, prot |-> 1, flags |-> 2,
                     has_file |-> FALSE],
           file |-> NoFile]}
    \cup {[event |-> "TSEM_SOCKET_CREATE",
           CELL |-> [family |-> AF_INET, type |-> 1, protocol |-> 0,
                     kern |-> 0],
           file |-> NoFile]}
    \cup {[event |-> e, CELL |-> a, file |-> NoFile] :
            e \in {"TSEM_SOCKET_CONNECT", "TSEM_SOCKET_BIND"},
            a \in SocketAddresses}
    \cup {[event |-> "TSEM_SOCKET_ACCEPT", CELL |-> a, file |-> NoFile] :
            a \in AcceptAddresses}
    \cup {[event |-> "TSEM_TASK_KILL",
           CELL |-> [cross_model |-> 0, signal |-> 9, target |-> B(1)],
           file |-> NoFile]}
    \cup {[event |-> "TSEM_GENERIC_EVENT", CELL |-> [event_type |-> t],
           file |-> NoFile] : t \in {"TSEM_FILE_IOCTL", "TSEM_TASK_SETPGID"}}
    \cup {[event |-> "TSEM_FILE_IOCTL", CELL |-> [event_type |-> 0],
           file |-> NoFile]}

Events ==
    {[event |-> c.event, task_id |-> t.task_id, COE |-> t.COE,
      CELL |-> c.CELL, file |-> c.file] : c \in Cells, t \in Subjects}

\* What the stack memory of map_event's cell_mapping may hold on entry.
StackValues == {B(0), B(3)}

\* tsem_map_event(): the event that tsem_event_init returned is mapped in
\* an internal domain.
tsem_map_event(ep, stack) ==
    /\ mappings' = (IF Len(mappings) = 2 THEN Tail(mappings) ELSE mappings)
                   \o << [ep |-> ep,
                          mapping |-> map_event(ep.event, ep, ep.task_id,
                                                stack)] >>
    /\ UNCHANGED <<dvars, tvars, peer, fvars, mvars, evars, nvars, lvars>>

NextMap == \E ep \in Events, stack \in StackValues : tsem_map_event(ep, stack)

SpecMap == InitInternal /\ [][NextMap]_vars

\* C8: two events with the same event type, task_id, COE and CELL fields
\* get byte-identical coefficients.
C8_MappingDeterminism ==
    \A i, j \in 1..Len(mappings) :
        mappings[i].ep = mappings[j].ep
           => mappings[i].mapping = mappings[j].mapping

\* Events whose type has a case in the switch of get_cell_mapping get a
\* coefficient that depends on their fields only.
HandledDeterminism ==
    \A i, j \in 1..Len(mappings) :
        (mappings[i].ep = mappings[j].ep
           /\ mappings[i].ep.event # "TSEM_FILE_IOCTL")
           => mappings[i].mapping = mappings[j].mapping

(***************************************************************************)
(* The magazines: tsem_event_allocate() and refill_event_magazine()        *)
(* (event.c), alloc_event_point() and refill_point_magazine() (model.c),   *)
(* allocate_export() and refill_export_magazine() (export.c).              *)
(***************************************************************************)

\* tsem_event_allocate(true), alloc_event_point(model, true) and
\* allocate_export(true): an acquisition in locked context.
magazine_acquire ==
    /\ Len(received) + refused < MaxAcquire
    /\ LET index == find_first_zero_bit(mag.index, MagazineSize)
       IN IF index < MagazineSize
          THEN /\ mag' = [mag EXCEPT !.index = @ \cup {index},
                                     !.work = @ \cup {index}]
               /\ received' = Append(received, mag.magazine[index])
               /\ UNCHANGED refused
          ELSE /\ refused' = refused + 1
               /\ UNCHANGED <<mag, received>>
    /\ UNCHANGED <<dvars, tvars, peer, fvars, mappings, cache, evars, nvars,
                   lvars>>

\* kmem_cache_zalloc(): an object that was never handed out or one that
\* was freed; 0 for NULL.
kmem_cache_zalloc == {0, cache.next} \cup cache.freed

\* refill_event_magazine(), line 43: index is never assigned; the test
\* "index >= magazine_size" reads whatever the stack holds.
frees_installed(kind, garbage) == kind = "event" /\ garbage >= MagazineSize

\* The refill worker queued for the slot index runs; ep is what
\* kmem_cache_zalloc returns and garbage what the stack holds.
magazine_refill(index, ep, garbage) ==
    /\ index \in mag.work
    /\ ep \in kmem_cache_zalloc
    /\ IF ep = 0
       THEN /\ mag' = [mag EXCEPT !.work = @ \ {index}]
            /\ UNCHANGED cache
       ELSE /\ mag' = [mag EXCEPT !.magazine[index] = ep,
                                  !.index = @ \ {index},
                                  !.work = @ \ {index}]
            /\ cache' =
                 [freed |-> IF frees_installed(mag.kind, garbage)
                            THEN cache.freed \cup {ep}
                            ELSE cache.freed \ {ep},
                  next |-> IF ep = cache.next THEN cache.next + 1
                           ELSE cache.next]
    /\ UNCHANGED <<dvars, tvars, peer, fvars, mappings, received, refused,
                   evars, nvars, lvars>>

\* The work item ws[index] as system_wq runs it.
refill_worker(index) ==
    \E ep \in 0..(MagazineSize + MaxAcquire + 1),
       garbage \in {0, MagazineSize} :
       magazine_refill(index, ep, garbage)

NextMag ==
    \/ magazine_acquire
    \/ \E index \in 0..(MagazineSize - 1) : refill_worker(index)

\* One of the three magazines of a domain made by tsem_ns_create.
InitMag ==
    /\ InitDomain /\ InitTasks /\ InitPeer /\ InitFiles /\ InitMappings
    /\ ctx_id = 1 /\ ~have_tpm
    /\ \E kind \in Magazines : InitMagazine(kind)
    /\ InitExternal /\ InitNs /\ InitLifetime

SpecMag == InitMag /\ [][NextMag]_vars

\* The step is a locked acquisition that got an object.
IsAcquire == Len(received') = Len(received) + 1

\* C10: a locked acquisition takes the lowest-indexed slot whose bit is
\* clear, sets that bit and queues one refill for that slot, and no two
\* acquisitions ever receive the same object.
C10_MagazineAcquire ==
    /\ [][IsAcquire =>
            \E index \in 0..(MagazineSize - 1) :
               /\ index \notin mag.index
               /\ \A j \in 0..(index - 1) : j \in mag.index
               /\ received'[Len(received')] = mag.magazine[index]
               /\ mag'.index = mag.index \cup {index}
               /\ mag'.work = mag.work \cup {index}
               /\ index \notin mag.work
         ]_vars
    /\ [](\A i, j \in 1..Len(received) : received[i] = received[j] => i = j)

\* The step is a locked acquisition, whatever it returned.
IsAcquireCall ==
    Len(received') + refused' = Len(received) + refused + 1

\* Every bit of magazine_index is set.
Exhausted == mag.index = 0..(MagazineSize - 1)

\* C11: a locked acquisition from a magazine whose bits are all set returns
\* NULL, queues no refill work and leaves the bitmap, the slots and the
\* cache as they were; a locked acquisition from a magazine with a clear
\* bit gets an object and sets one more bit, so that MagazineSize
\* acquisitions in a row from a new magazine succeed and the next one is
\* refused.
C11_Exhaustion ==
    [][IsAcquireCall =>
         IF Exhausted
         THEN /\ refused' = refused + 1
              /\ received' = received
              /\ mag' = mag
              /\ cache' = cache
         ELSE /\ refused' = refused
              /\ Len(received') = Len(received) + 1
              /\ Cardinality(mag'.index) = Cardinality(mag.index) + 1
      ]_vars

\* MagazineSize acquisitions in a row got the objects of the new magazine,
\* the next one was refused, and no refill worker has run.
C11_Witness ==
    /\ refused = 1
    /\ received = [i \in 1..MagazineSize |-> i]
    /\ Exhausted
    /\ mag.work = mag.index
    /\ cache.next = MagazineSize + 1

\* system_wq runs every work item that is queued.
SpecMagFair ==
    /\ InitMag
    /\ [][NextMag]_vars
    /\ \A index \in 0..(MagazineSize - 1) : WF_vars(refill_worker(index))

\* C12: with the refill workers scheduled fairly, a slot whose bit was set
\* by a locked acquisition eventually has its bit cleared again.
C12_AvailabilityRestored ==
    \A index \in 0..(MagazineSize - 1) :
        (index \in mag.index) ~> (index \notin mag.index)

\* The object of slot index is allocated and nobody but the magazine holds
\* it.
SlotLive(index) ==
    /\ mag.magazine[index] # 0
    /\ mag.magazine[index] \notin cache.freed
    /\ \A k \in 1..Len(received) : received[k] # mag.magazine[index]

\* C13: a slot whose bit is clear holds a live object that only the
\* magazine owns; a refill worker installs the new object in a step that
\* ends with the bit clear and does not free the object it installed.
C13_SlotInvariant ==
    /\ [](\A index \in 0..(MagazineSize - 1) :
             index \notin mag.index => SlotLive(index))
    /\ [][\A index \in 0..(MagazineSize - 1) :
             (index \in mag.index /\ index \notin mag'.index)
                => /\ mag'.magazine[index] \in kmem_cache_zalloc \ {0}
                   /\ mag'.magazine[index] \notin cache'.freed
         ]_vars

\* The slot invariant of the coefficient and export magazines.
SlotInvariantOthers ==
    \A index \in 0..(MagazineSize - 1) :
        (mag.kind # "event" /\ index \notin mag.index) => SlotLive(index)

(***************************************************************************)
(* export.c: the export queue of an externally modeled domain.             *)
(***************************************************************************)

\* The variables of the domain other than the trust status of its tasks.
dvars_export == <<have_tpm, ctx_id, sealed, base, measurement, state,
                  point_list, point_count, trajectory_list, forensics_list,
                  magazine_index, nevents, submitted, chain, faults>>

\* What no function of export.c writes.
ovars == <<dvars_export, tvars, peer, fvars, mappings, nvars, lvars>>

\* The task of the domain whose exports are followed.
Callers == {1}

\* The objects of export_cachep that the model tells apart.
ExportObjects == 0..(MagazineSize + MaxExports + 1)

\* allocate_export(locked) returns exp: from the allocator when not
\* locked, from the first slot of the magazine whose bit is clear when
\* locked; 0 is NULL.  Only the objects of the magazine are followed:
\* a record is not told apart by its address once it is queued.
allocate_export(locked, exp) ==
    IF ~locked
    THEN /\ exp \in {0, cache.next}
         /\ UNCHANGED mvars
    ELSE LET index == find_first_zero_bit(mag.index, MagazineSize)
         IN /\ IF index < MagazineSize
               THEN /\ exp = mag.magazine[index]
                    /\ mag' = [mag EXCEPT !.index = @ \cup {index},
                                          !.work = @ \cup {index}]
               ELSE /\ exp = 0
                    /\ UNCHANGED mag
            /\ UNCHANGED <<cache, received, refused>>

\* History: the number of records that were queued so far; a record
\* carries the number it was queued as in nr.
queued == consumer.shown + Len(external.export_list)

\* list_add(): insertion at the head of the list.
list_add(list, exp) == <<exp>> \o list

\* list_add_tail(&exp->list, &ctx->external->export_list)
list_add_tail(list, exp) == Append(list, exp)

\* An export_type that does not look at ep->locked.
export_type_event(locked) == "EXPORT_EVENT"

\* exp->type = ep->locked ? EXPORT_ASYNC_EVENT : EXPORT_EVENT
export_type(locked) ==
    IF locked THEN "EXPORT_ASYNC_EVENT" ELSE "EXPORT_EVENT"

\* A test of the allocation that never sees a failure.
allocation_unchecked(exp) == FALSE

\* if (!exp) return -ENOMEM
allocation_failed(exp) == exp = 0

\* tsem_export_event(ep), lines 188-213, called by task t with a new event
\* that holds the reference of tsem_event_init: the record is allocated
\* and queued; an event in locked context is done.
tsem_export_event(t, locked, exp) ==
    /\ caller[t].pc \in {"idle", "returned"}
    /\ ~caller[t].sigkill
    /\ consumer.calls < MaxExports
    /\ allocate_export(locked, exp)
    /\ consumer' = [consumer EXCEPT !.calls = @ + 1]
    /\ LET ep == [id |-> Len(kref) + 1, locked |-> locked, task |-> t]
       IN IF allocation_failed(exp)
          THEN /\ caller' = [caller EXCEPT ![t].pc = "returned",
                                           ![t].call = "event",
                                           ![t].locked = locked,
                                           ![t].retn = "ENOMEM"]
               /\ kref' = Append(kref, 1)
               /\ UNCHANGED external
          ELSE /\ kref' = Append(kref, 2)
               /\ external' =
                    [export_list |->
                        list_add_tail(external.export_list,
                                      [type |-> export_type(locked),
                                       u |-> ep,
                                       nr |-> queued + 1]),
                     have_event |-> locked \/ external.have_event]
               /\ caller' = [caller EXCEPT
                                ![t].pc = IF locked THEN "returned"
                                          ELSE "mark",
                                ![t].call = "event",
                                ![t].locked = locked,
                                ![t].retn = IF locked THEN "0" ELSE "NONE"]
    /\ UNCHANGED <<trust_status, ovars>>

\* Lines 215-216: task->trust_status |= TSEM_TASK_TRUST_PENDING, and
\* trigger_event().
export_mark(t) ==
    /\ caller[t].pc = "mark"
    /\ trust_status' = [trust_status EXCEPT
                           ![t] = @ \cup TSEM_TASK_TRUST_PENDING]
    /\ external' = [external EXCEPT !.have_event = TRUE]
    /\ caller' = [caller EXCEPT ![t].pc = "check"]
    /\ UNCHANGED <<kref, consumer, mvars, ovars>>

\* A loop test that lets the caller go whatever its trust status.
still_pending_never(status) == FALSE

\* task->trust_status & TSEM_TASK_TRUST_PENDING
still_pending(status) == TSEM_TASK_TRUST_PENDING \subseteq status

\* Line 218: the test of the while loop; line 229 when it fails.
export_check(t) ==
    /\ caller[t].pc = "check"
    /\ caller' = IF still_pending(trust_status[t])
                 THEN [caller EXCEPT ![t].pc = "sleep"]
                 ELSE [caller EXCEPT ![t].pc = "returned", ![t].retn = "0"]
    /\ UNCHANGED <<trust_status, external, kref, consumer, mvars, ovars>>

\* Lines 219-220: schedule() returns, for a wake-up or for a signal.
export_wake(t) ==
    /\ caller[t].pc = "sleep"
    /\ caller' = [caller EXCEPT ![t].pc = "signal"]
    /\ UNCHANGED <<trust_status, external, kref, consumer, mvars, ovars>>

\* A signal test that does not act on SIGKILL.
status_after_signal_kept(status, sigkill) == status

\* Lines 221-226: a pending SIGKILL makes the task untrusted.
status_after_signal(status, sigkill) ==
    IF sigkill THEN TSEM_TASK_UNTRUSTED ELSE status

export_signal(t) ==
    /\ caller[t].pc = "signal"
    /\ trust_status' = [trust_status EXCEPT
                           ![t] = status_after_signal(@, caller[t].sigkill)]
    /\ caller' = [caller EXCEPT ![t].pc = "check"]
    /\ UNCHANGED <<external, kref, consumer, mvars, ovars>>

\* SIGKILL is sent to task t while it is in the synchronous part of
\* tsem_export_event; killed remembers that it was blocked in the loop with
\* TRUST_PENDING set.
SIGKILL(t) ==
    /\ ~caller[t].sigkill
    /\ caller[t].pc \in {"mark", "check", "sleep", "signal"}
    /\ caller' = [caller EXCEPT
                     ![t].sigkill = TRUE,
                     ![t].killed = /\ caller[t].pc = "sleep"
                                   /\ still_pending(trust_status[t])]
    /\ UNCHANGED <<trust_status, external, kref, consumer, mvars, ovars>>

TsemEvents == {"TSEM_FILE_OPEN"}

\* ctx->actions[event]: the table a domain inherits from the root domain,
\* which is zeroed: TSEM_ACTION_LOG.
ctx_actions(event) == "LOG"

\* tsem_export_action(event, locked), called by task t.
tsem_export_action(t, event, locked, exp) ==
    /\ caller[t].pc \in {"idle", "returned"}
    /\ ~caller[t].sigkill
    /\ consumer.calls < MaxExports
    /\ allocate_export(locked, exp)
    /\ consumer' = [consumer EXCEPT !.calls = @ + 1]
    /\ IF allocation_failed(exp)
       THEN /\ caller' = [caller EXCEPT ![t].pc = "returned",
                                        ![t].call = "action",
                                        ![t].locked = locked,
                                        ![t].retn = "ENOMEM"]
            /\ UNCHANGED external
       ELSE /\ external' =
                 [export_list |->
                     list_add_tail(external.export_list,
                                   [type |-> "LOG_EVENT",
                                    u |-> [type |-> event,
                                           action |-> ctx_actions(event),
                                           comm |-> t],
                                    nr |-> queued + 1]),
                  have_event |-> TRUE]
            /\ caller' = [caller EXCEPT ![t].pc = "returned",
                                        ![t].call = "action",
                                        ![t].locked = locked,
                                        ![t].retn = "0"]
    /\ UNCHANGED <<trust_status, kref, ovars>>

\* tsem_export_aggregate(), which tsem_ns_create calls on the new domain.
tsem_export_aggregate(exp) ==
    /\ consumer.calls = 0
    /\ consumer' = [consumer EXCEPT !.calls = @ + 1]
    /\ exp \in {0, cache.next}
    /\ IF exp = 0
       THEN UNCHANGED external
       ELSE /\ external' =
                 [export_list |->
                     list_add_tail(external.export_list,
                                   [type |-> "AGGREGATE_EVENT",
                                    u |-> tsem_trust_aggregate(have_tpm),
                                    nr |-> queued + 1]),
                  have_event |-> TRUE]
    /\ UNCHANGED <<trust_status, kref, caller, mvars, ovars>>

\* tsem_export_show(): the first record of the list, if any, is removed,
\* shown and freed.
tsem_export_show ==
    /\ IF ctx_id = 0 \/ external.export_list = << >>
       THEN /\ consumer' = [consumer EXCEPT !.retn = "ENODATA"]
            /\ UNCHANGED <<external, kref>>
       ELSE LET exp == Head(external.export_list)
            IN /\ external' = [external EXCEPT !.export_list = Tail(@)]
               /\ kref' = IF exp.type \in {"EXPORT_EVENT",
                                           "EXPORT_ASYNC_EVENT"}
                          THEN [kref EXCEPT ![exp.u.id] = @ - 1]
                          ELSE kref
               /\ consumer' =
                    [consumer EXCEPT
                       !.retn = "0",
                       !.shown = @ + 1,
                       !.due = IF exp.type = "EXPORT_EVENT"
                               THEN @ \cup {exp.u.task} ELSE @]
    /\ UNCHANGED <<trust_status, caller, mvars, ovars>>

\* The trust orchestrator sets the trust status of a task whose event it
\* was shown: TRUSTED clears the pending bit, UNTRUSTED makes the task
\* untrusted.
control_COE(t, cmd) ==
    /\ t \in consumer.due
    /\ trust_status' =
         [trust_status EXCEPT
            ![t] = IF cmd = "UNTRUSTED" THEN TSEM_TASK_UNTRUSTED
                   ELSE @ \ TSEM_TASK_TRUST_PENDING]
    /\ consumer' = [consumer EXCEPT !.due = @ \ {t}]
    /\ UNCHANGED <<external, kref, caller, mvars, ovars>>

NextExport ==
    \/ \E exp \in ExportObjects : tsem_export_aggregate(exp)
    \/ \E t \in Callers, locked \in BOOLEAN, exp \in ExportObjects :
          tsem_export_event(t, locked, exp)
    \/ \E t \in Callers : export_mark(t)
    \/ \E t \in Callers : export_check(t)
    \/ \E t \in Callers : export_wake(t)
    \/ \E t \in Callers : export_signal(t)
    \/ \E t \in Callers : SIGKILL(t)
    \/ \E t \in Callers, event \in TsemEvents, locked \in BOOLEAN,
          exp \in ExportObjects :
          tsem_export_action(t, event, locked, exp)
    \/ tsem_export_show
    \/ \E t \in Callers, cmd \in {"TRUSTED", "UNTRUSTED"} :
          control_COE(t, cmd)
    \/ \E index \in 0..(MagazineSize - 1) : refill_worker(index)

\* An external domain made by tsem_ns_create, before its aggregate is
\* exported.
InitExport ==
    /\ InitDomain /\ InitTasks /\ InitPeer /\ InitFiles /\ InitMappings
    /\ ctx_id = 1 /\ ~have_tpm
    /\ InitMagazine("export") /\ InitExternal /\ InitNs /\ InitLifetime

SpecExport == InitExport /\ [][NextExport]_vars

\* The step removes a record from the export list.
Removed == Len(external'.export_list) < Len(external.export_list)

\* C14: the export list holds the records that were not shown yet in the
\* order they were queued in; tsem_export_show removes the first of them
\* and no other, and on an empty list it removes nothing and returns
\* -ENODATA.
C14_ExportFIFO ==
    /\ [](\A i \in 1..Len(external.export_list) :
             external.export_list[i].nr = consumer.shown + i)
    /\ [][Removed =>
             /\ external'.export_list = Tail(external.export_list)
             /\ Head(external.export_list).nr = consumer.shown + 1
             /\ consumer'.shown = consumer.shown + 1
             /\ consumer'.retn = "0"
         ]_vars
    /\ [][(consumer'.retn # consumer.retn \/ consumer'.shown # consumer.shown)
             => IF external.export_list = << >>
                THEN /\ consumer'.retn = "ENODATA"
                     /\ consumer'.shown = consumer.shown
                     /\ external' = external
                     /\ kref' = kref
                ELSE Removed
         ]_vars

\* Two records were shown, a call on the empty list returned -ENODATA and
\* a third record was queued since, behind an aggregate.
C14_Witness ==
    /\ consumer.shown = 2
    /\ consumer.retn = "ENODATA"
    /\ Len(external.export_list) = 1
    /\ external.export_list[1].type # "AGGREGATE_EVENT"

\* Task t is in or back from a tsem_export_event call for an event that is
\* not locked.
Synchronous(t) == caller[t].call = "event" /\ ~caller[t].locked

\* C15: a synchronous tsem_export_event sets TRUST_PENDING on its caller
\* before it waits, and in no state where it has returned is the pending
\* bit of the caller set.
C15_NoReturnWhilePending ==
    /\ [](\A t \in Callers :
             (Synchronous(t) /\ caller[t].pc = "returned")
                => ~still_pending(trust_status[t]))
    /\ [][\A t \in Callers :
             (caller[t].pc = "mark" /\ caller'[t].pc # "mark")
                => /\ caller'[t].pc = "check"
                   /\ still_pending(trust_status'[t])
         ]_vars

\* A synchronous call has returned 0 to a task that the orchestrator made
\* untrusted and that no signal was sent to.
C15_Witness ==
    \E t \in Callers :
       /\ Synchronous(t)
       /\ caller[t].pc = "returned"
       /\ caller[t].retn = "0"
       /\ ~caller[t].sigkill
       /\ trust_status[t] = TSEM_TASK_UNTRUSTED

\* The event of the last tsem_export_event call: the calls of the task are
\* made one after the other.
LastEvent == Len(kref)

\* The record of event id is in the export list.
InQueue(id) ==
    \E i \in 1..Len(external.export_list) :
       /\ external.export_list[i].type = "EXPORT_EVENT"
       /\ external.export_list[i].u.id = id

\* The scheduler runs a task that a signal woke.
SpecExportFair ==
    /\ InitExport
    /\ [][NextExport]_vars
    /\ \A t \in Callers :
          /\ WF_vars(export_check(t))
          /\ WF_vars(caller[t].sigkill /\ export_wake(t))
          /\ WF_vars(export_signal(t))

\* C16: a caller that SIGKILL was sent to while it was blocked with
\* TRUST_PENDING set leaves the wait, and has trust status UNTRUSTED when
\* it has; the record it queued is in the export list unless
\* tsem_export_show has removed it, which is the only way a record leaves
\* the list.
C16_KillWhilePending ==
    /\ \A t \in Callers :
          caller[t].killed ~> (caller[t].pc = "returned")
    /\ [](\A t \in Callers :
             (caller[t].killed /\ caller[t].pc = "returned")
                => /\ trust_status[t] = TSEM_TASK_UNTRUSTED
                   /\ caller[t].retn = "0"
                   /\ (InQueue(LastEvent) \/ kref[LastEvent] = 1))
    /\ [][Removed => /\ consumer'.shown = consumer.shown + 1
                     /\ external'.export_list = Tail(external.export_list)
                     /\ caller' = caller
         ]_vars

\* The killed caller is back, untrusted, and its record is still queued.
C16_Witness ==
    \E t \in Callers :
       /\ caller[t].killed
       /\ caller[t].pc = "returned"
       /\ trust_status[t] = TSEM_TASK_UNTRUSTED
       /\ InQueue(LastEvent)

\* The step is a tsem_export_event call.
IsExportEvent == Len(kref') = Len(kref) + 1

\* The step is a tsem_export_event or tsem_export_action call.
IsExportCall ==
    /\ consumer'.calls = consumer.calls + 1
    /\ \E t \in Callers : caller'[t] # caller[t]

\* C17: a tsem_export_event call that gets its record queues it as
\* EXPORT_ASYNC_EVENT when the event is locked and as EXPORT_EVENT when it
\* is not, and takes one reference on the event beside the one the event
\* came with; for a locked event it has then returned 0, and the trust
\* status of the caller is what it was.
C17_ExportRecord ==
    [][\A t \in Callers :
         (IsExportEvent /\ caller'[t] # caller[t]
            /\ external'.export_list # external.export_list)
           => LET exp == external'.export_list[Len(external'.export_list)]
              IN /\ external'.export_list =
                       Append(external.export_list, exp)
                 /\ exp.u.id = Len(kref')
                 /\ kref'[exp.u.id] = 2
                 /\ exp.type = IF caller'[t].locked
                               THEN "EXPORT_ASYNC_EVENT"
                               ELSE "EXPORT_EVENT"
                 /\ IF caller'[t].locked
                    THEN /\ caller'[t].pc = "returned"
                         /\ caller'[t].retn = "0"
                         /\ trust_status' = trust_status
                    ELSE caller'[t].pc = "mark"
      ]_vars

\* The export list holds a record of each of the two types.
C17_Witness ==
    /\ \E i \in 1..Len(external.export_list) :
          /\ external.export_list[i].type = "EXPORT_ASYNC_EVENT"
          /\ external.export_list[i].u.locked
          /\ kref[external.export_list[i].u.id] = 2
    /\ \E i \in 1..Len(external.export_list) :
          /\ external.export_list[i].type = "EXPORT_EVENT"
          /\ ~external.export_list[i].u.locked
          /\ kref[external.export_list[i].u.id] = 2

\* C18: a tsem_export_event or tsem_export_action call in locked context
\* on an export magazine whose bits are all set has returned -ENOMEM when
\* the step is over; the export list and the trust status of the caller
\* are what they were and the event has the one reference it came with.
C18_BackPressure ==
    [][\A t \in Callers :
         (IsExportCall /\ caller'[t] # caller[t] /\ caller'[t].locked
            /\ Exhausted)
           => /\ caller'[t].pc = "returned"
              /\ caller'[t].retn = "ENOMEM"
              /\ external' = external
              /\ trust_status' = trust_status
              /\ mag' = mag
              /\ IF caller'[t].call = "event"
                 THEN kref' = Append(kref, 1)
                 ELSE kref' = kref
      ]_vars

\* A locked tsem_export_action has failed on the exhausted magazine after
\* a locked tsem_export_event took its only object.
C18_Witness ==
    \E t \in Callers :
       /\ caller[t].call = "action"
       /\ caller[t].locked
       /\ caller[t].retn = "ENOMEM"
       /\ Exhausted
       /\ \E i \in 1..Len(external.export_list) :
             external.export_list[i].type = "EXPORT_ASYNC_EVENT"

(***************************************************************************)
(* namespace.c: domain ids and authentication keys.                        *)
(***************************************************************************)

\* What tsem_ns_create and wq_put do not write.
nsframe == <<dvars, tvars, peer, fvars, mappings, mvars, evars, lvars>>

\* The tasks that create domains.
Creators == {t \in Tasks : t <= 2}

\* hex_to_bin(ch): the value of a hexadecimal digit, -1 for any other
\* character.
hex_to_bin(ch) ==
    CASE ch = "0" -> 0
      [] ch = "1" -> 1
      [] ch \in {"a", "A"} -> 10
      [] OTHER -> -1

\* hex2bin(dst, src, count) fails when one of the 2 * count characters is
\* not a hexadecimal digit.
hex2bin_fails(src, count) ==
    \E k \in 1..(2 * count) : hex_to_bin(src[k]) < 0

\* The count bytes that hex2bin stores.
hex2bin(src, count) ==
    <<"B", [k \in 1..count |->
              16 * hex_to_bin(src[2 * k - 1]) + hex_to_bin(src[2 * k])]>>

\* A key string of 2 * DigestSize characters that ends in ch.
KeyString(ch) == [k \in 1..(2 * DigestSize) |->
                    IF k = 2 * DigestSize THEN ch ELSE "0"]

\* The key strings that callers pass: two spellings of one key, a string
\* with a character that is no digit, a string that is too short.
KeyStrings == {KeyString("a"), KeyString("A"), KeyString("g"), <<"0", "a">>}

\* What get_random_bytes stores in t_ttask->task_key.
RandomKeys == {B(1), B(2)}

\* tsem_ns_event_key(task_key, keystr, key): the key that is stored.
tsem_ns_event_key(task_key, keystr) ==
    Hash(<<task_key, hex2bin(keystr, DigestSize)>>)

\* generate_task_key, lines 55-59: the list holds an entry with this key.
found_key(list, key) == \E i \in 1..Len(list) : list[i].key = key

\* A loop that takes the first key it draws.
first_key(list, key) == TRUE

\* generate_task_key, lines 45-62: the loop ends with this key: the list
\* is empty or holds no entry with it.
valid_key(list, key) == list = << >> \/ ~found_key(list, key)

\* remove_task_key(context_id): the first entry of that domain is deleted.
remove_task_key(list, id) ==
    IF \E i \in 1..Len(list) : list[i].context_id = id
    THEN LET i == CHOOSE i \in 1..Len(list) :
                     /\ list[i].context_id = id
                     /\ \A j \in 1..(i - 1) : list[j].context_id # id
         IN SubSeq(list, 1, i - 1) \o SubSeq(list, i + 1, Len(list))
    ELSE list

TSEM_CONTROL == {"TSEM_CONTROL_INTERNAL", "TSEM_CONTROL_EXTERNAL"}

\* The allocation or call of tsem_ns_create that fails, if any, once the
\* mutex is held.  A magazine fails at bitmap_zalloc (_index), at the
\* kcalloc of its array (_array) or later, at a slot or at the work
\* structures.
Fails == {"none", "event_magazine_index", "event_magazine_array",
          "event_magazine", "model", "model_event", "external", "hash",
          "entry", "dentry", "export_magazine_index",
          "export_magazine_array", "export_magazine", "aggregate"}

\* Where tsem_event_magazine_allocate / tsem_export_magazine_allocate
\* fails when the step named by fail is the one of magazine kind.
magazine_step(fail, kind) ==
    IF fail = kind \o "_index" THEN "index"
    ELSE IF fail = kind \o "_array" THEN "array"
    ELSE IF fail = kind THEN "ws"
    ELSE "none"

\* tsem_event_magazine_allocate(), tsem_export_magazine_allocate() and
\* magazine_allocate(): the value returned, how often the function itself
\* released what it had allocated, whether the array pointer is set, and
\* whether the release at its label done read magazine[0] through the
\* NULL array pointer.
magazine_allocate(step) ==
    CASE step = "index" ->
           [retn |-> "ENOMEM", allocated |-> FALSE, released |-> 0,
            array |-> FALSE, fault |-> FALSE]
      [] step = "array" ->
           [retn |-> "ENOMEM", allocated |-> TRUE, released |-> 0,
            array |-> FALSE, fault |-> TRUE]
      [] step = "ws" ->
           [retn |-> "ENOMEM", allocated |-> TRUE, released |-> 1,
            array |-> TRUE, fault |-> FALSE]
      [] OTHER ->
           [retn |-> "0", allocated |-> TRUE, released |-> 0,
            array |-> TRUE, fault |-> FALSE]

\* A release that does nothing.
magazine_free_skipped(m) == m

\* tsem_event_magazine_free() / tsem_export_magazine_free() on a magazine
\* that the allocation function left as m: the loop over magazine_size
\* slots reads through the array pointer, then every object, the bitmap,
\* the work structures and the array are released, whatever was released
\* before.
magazine_free(m) ==
    IF ~m.array THEN [m EXCEPT !.fault = TRUE]
    ELSE [m EXCEPT !.released = @ + 1]

\* tsem_ns_create(), lines 271-277: configure_digest and the allocation of
\* new_ctx, before the mutex is taken.  When new_ctx cannot be allocated
\* the call returns with the digest handle and the digest name allocated.
ns_call(t, fail) ==
    /\ creator[t].pc \in {"idle", "returned"}
    /\ context_id < MaxCreates
    /\ creator' = [creator EXCEPT
                      ![t] = IF fail = "none"
                             THEN [NoCreator EXCEPT !.pc = "lock"]
                             ELSE [NoCreator EXCEPT
                                     !.pc = "returned",
                                     !.retn = "ENOMEM",
                                     !.res = {<<"tfm", 0>>,
                                              <<"digestname", 0>>}]]
    /\ UNCHANGED <<context_id, context_id_list, context_id_mutex, domains,
                   nsframe>>

\* Lines 279-280: mutex_lock(&context_id_mutex); new_id = context_id + 1.
\* The arguments of the call are read from here on.
ns_lock(t, type, keystr) ==
    /\ creator[t].pc = "lock"
    /\ context_id_mutex = 0
    /\ context_id_mutex' = t
    /\ creator' = [creator EXCEPT ![t].pc = "body",
                                  ![t].new_id = context_id + 1,
                                  ![t].type = type,
                                  ![t].key = keystr]
    /\ UNCHANGED <<context_id, context_id_list, domains, nsframe>>

\* retn at the label done, and the registry there, for a domain of this
\* type and key string when the step named by fail fails and the loop of
\* generate_task_key ends with task_key; ext tells whether
\* new_ctx->external is set there, and the two magazines are as their
\* allocation functions left them.
ns_outcome(type, keystr, new_id, fail, task_key) ==
    LET list == context_id_list
        key == tsem_ns_event_key(task_key, keystr)
        added == Append(list, [context_id |-> new_id, key |-> key])
        none == magazine_allocate("none")
        em == magazine_allocate(magazine_step(fail, "event_magazine"))
        xm == magazine_allocate(magazine_step(fail, "export_magazine"))
        nox == [none EXCEPT !.allocated = FALSE]
    IN  IF em.retn # "0"
        THEN [retn |-> em.retn, list |-> list, model |-> FALSE,
              em |-> em, xm |-> nox, ext |-> FALSE, entry |-> FALSE]
        ELSE IF type = "TSEM_CONTROL_INTERNAL"
        THEN [retn |-> "0", list |-> list,
              model |-> fail \notin {"model", "model_event"},
              em |-> em, xm |-> nox, ext |-> FALSE, entry |-> FALSE]
        ELSE IF Len(keystr) # 2 * DigestSize
        THEN [retn |-> "EINVAL", list |-> list, model |-> FALSE,
              em |-> em, xm |-> nox, ext |-> FALSE, entry |-> FALSE]
        ELSE IF fail = "external"
        THEN [retn |-> "ENOMEM", list |-> list, model |-> FALSE,
              em |-> em, xm |-> nox, ext |-> FALSE, entry |-> FALSE]
        ELSE IF hex2bin_fails(keystr, DigestSize)
        THEN [retn |-> "EINVAL", list |-> list, model |-> FALSE,
              em |-> em, xm |-> nox, ext |-> FALSE, entry |-> FALSE]
        ELSE IF fail = "hash"
        THEN [retn |-> "EHASH", list |-> list, model |-> FALSE,
              em |-> em, xm |-> nox, ext |-> FALSE, entry |-> FALSE]
        ELSE IF fail = "entry"
        THEN [retn |-> "ENOMEM", list |-> list, model |-> FALSE,
              em |-> em, xm |-> nox, ext |-> FALSE, entry |-> FALSE]
        ELSE IF fail = "dentry"
        THEN [retn |-> "EDENTRY", list |-> remove_task_key(added, new_id),
              model |-> FALSE,
              em |-> em, xm |-> nox, ext |-> FALSE, entry |-> FALSE]
        ELSE IF xm.retn # "0"
        THEN [retn |-> xm.retn, list |-> added, model |-> FALSE,
              em |-> em, xm |-> xm, ext |-> TRUE, entry |-> TRUE]
        ELSE [retn |-> "0", list |-> added, model |-> FALSE,
              em |-> em, xm |-> xm, ext |-> TRUE, entry |-> TRUE]

\* The key of the outcome passed the loop of generate_task_key.
key_drawn(type, keystr, fail, task_key) ==
    (/\ type = "TSEM_CONTROL_EXTERNAL"
     /\ Len(keystr) = 2 * DigestSize
     /\ ~hex2bin_fails(keystr, DigestSize)
     /\ fail \notin {"event_magazine_index", "event_magazine_array",
                     "event_magazine", "external", "hash"})
       => valid_key(context_id_list, tsem_ns_event_key(task_key, keystr))

\* Lines 325-335, the rollback at the label done for the outcome out: the
\* registry entry of new_id is removed, then the digest handle, the event
\* magazine, the digest name, the export magazine if new_ctx->external is
\* set, the external structure and new_ctx are released.  The result
\* tells which of the things that the call allocated and still held at
\* done were not released once by the time the call ended, how often
\* each was released, and whether the call ended in a fault.  A fault
\* inside an allocation function ends the call before the label is
\* reached.
ns_rollback(out, new_id) ==
    LET early == out.em.fault \/ out.xm.fault
        em == IF early THEN out.em ELSE magazine_free(out.em)
        fault_em == ~early /\ em.fault
        xm == IF early \/ fault_em \/ ~out.ext THEN out.xm
              ELSE magazine_free(out.xm)
        fault_xm == ~early /\ ~fault_em /\ xm.fault
        allocated ==
            {"tfm", "digestname", "new_ctx"}
              \cup (IF em.allocated THEN {"event_magazine"} ELSE {})
              \cup (IF out.ext THEN {"external"} ELSE {})
              \cup (IF out.entry THEN {"entry"} ELSE {})
              \cup (IF xm.allocated THEN {"export_magazine"} ELSE {})
        count == [r \in allocated |->
                    CASE r = "event_magazine" -> em.released
                      [] r = "export_magazine" -> xm.released
                      [] r \in {"tfm", "entry"} -> IF early THEN 0 ELSE 1
                      [] r = "digestname" ->
                           IF early \/ fault_em THEN 0 ELSE 1
                      [] OTHER ->
                           IF early \/ fault_em \/ fault_xm THEN 0 ELSE 1]
    IN [fault |-> early \/ fault_em \/ fault_xm,
        list |-> IF early THEN out.list
                 ELSE remove_task_key(out.list, new_id),
        res |-> {<<r, count[r]>> : r \in {x \in allocated : count[x] # 1}}]

\* tsem_ns_create(), lines 282-346, with the mutex held: the magazines,
\* the model or the external structure and its key; at done either the
\* rollback, or the counter, the context of the task and the aggregate.
ns_body(t, fail, task_key) ==
    /\ creator[t].pc = "body"
    /\ key_drawn(creator[t].type, creator[t].key, fail, task_key)
    /\ LET c == creator[t]
           out == ns_outcome(c.type, c.key, c.new_id, fail, task_key)
           rb == ns_rollback(out, c.new_id)
           installed == c.type = "TSEM_CONTROL_INTERNAL" /\ ~out.model
       IN IF out.retn # "0"
          THEN /\ context_id_list' = rb.list
               /\ context_id_mutex' = IF rb.fault THEN t ELSE 0
               /\ creator' = [creator EXCEPT
                                ![t] = IF rb.fault
                                       THEN [NoCreator EXCEPT
                                               !.pc = "oops",
                                               !.res = rb.res]
                                       ELSE [NoCreator EXCEPT
                                               !.pc = "returned",
                                               !.key =
                                                 IF out.retn = "EINVAL"
                                                 THEN c.key ELSE << >>,
                                               !.retn = out.retn,
                                               !.res = rb.res]]
               /\ UNCHANGED <<context_id, domains>>
          ELSE /\ context_id_list' = out.list
               /\ context_id' = c.new_id
               /\ domains' =
                    Append(domains,
                           [id |-> IF installed THEN 0 ELSE c.new_id,
                            type |-> c.type, live |-> TRUE])
               /\ IF installed /\ fail = "model"
                  THEN /\ creator' =
                            [creator EXCEPT
                               ![t] = [NoCreator EXCEPT !.pc = "oops"]]
                       /\ UNCHANGED context_id_mutex
                  ELSE /\ context_id_mutex' = 0
                       /\ creator' =
                            [creator EXCEPT
                               ![t] = [NoCreator EXCEPT
                                         !.pc = "returned",
                                         !.retn =
                                            IF fail \in {"aggregate",
                                                         "model_event"}
                                            THEN "ENOMEM" ELSE "0"]]
    /\ UNCHANGED nsframe

\* The failures of the event magazine, which is allocated first.
EventMagazineFails == {"event_magazine_index", "event_magazine_array",
                       "event_magazine"}

\* wq_put(): the last reference to domain number i of the history was
\* dropped; the key of an external domain leaves the registry.
wq_put(i) ==
    /\ i \in 1..Len(domains)
    /\ domains[i].live
    /\ domains[i].id # 0
    /\ context_id_mutex = 0
    /\ context_id_list' =
         IF domains[i].type = "TSEM_CONTROL_EXTERNAL"
         THEN remove_task_key(context_id_list, domains[i].id)
         ELSE context_id_list
    /\ domains' = [domains EXCEPT ![i].live = FALSE]
    /\ UNCHANGED <<context_id, context_id_mutex, creator, nsframe>>

NextNs ==
    \/ \E t \in Creators, fail \in {"none", "ctx"} : ns_call(t, fail)
    \/ \E t \in Creators, type \in TSEM_CONTROL, keystr \in KeyStrings :
          ns_lock(t, type, keystr)
    \/ \E t \in Creators, fail \in Fails, task_key \in RandomKeys :
          ns_body(t, fail, task_key)
    \/ \E i \in 1..MaxCreates : wq_put(i)

SpecNs == InitInternal /\ [][NextNs]_vars

\* C19: no two entries of the key registry hold the same key, and every
\* live external domain has one entry, so that no two live external
\* domains have the same authentication key.
C19_KeysUnique ==
    /\ \A i, j \in 1..Len(context_id_list) :
          context_id_list[i].key = context_id_list[j].key => i = j
    /\ \A d \in 1..Len(domains) :
          (domains[d].live /\ domains[d].type = "TSEM_CONTROL_EXTERNAL")
             => Cardinality({i \in 1..Len(context_id_list) :
                               context_id_list[i].context_id = domains[d].id})
                  = 1

\* Two external domains are live whose key strings give the same bytes,
\* after an external domain was torn down: the later one could have drawn
\* the task key of the earlier one.
C19_Witness ==
    /\ Len(context_id_list) = 2
    /\ context_id_list[1].key[2][2] = context_id_list[2].key[2][2]
    /\ context_id_list[1].key # context_id_list[2].key
    /\ \E d \in 1..Len(domains) :
          ~domains[d].live /\ domains[d].type = "TSEM_CONTROL_EXTERNAL"

\* The ids of the contexts that were installed increase and none is the
\* id of the root domain.
DomainIdsIncrease ==
    /\ \A i, j \in 1..Len(domains) :
          i < j => domains[i].id < domains[j].id
    /\ \A i \in 1..Len(domains) : domains[i].id # 0

\* C20: every context that tsem_ns_create installs has an id above those
\* of all contexts installed before it, the root domain included, and a
\* call that returns an error leaves the counter as it was.
C20_DomainIds ==
    /\ []DomainIdsIncrease
    /\ [][\A t \in Creators :
             (creator[t].pc = "body" /\ creator'[t].pc = "returned"
                /\ creator'[t].retn # "0")
               => context_id' = context_id
         ]_vars

\* The ids of the contexts that a tsem_ns_create which got its model
\* installed increase.
DomainIdsOfModels ==
    \A i, j \in 1..Len(domains) :
       (i < j /\ domains[i].id # 0 /\ domains[j].id # 0)
          => domains[i].id < domains[j].id

\* Task t leaves the locked part of tsem_ns_create in this step, and the
\* step is one that the call takes when its event magazine was allocated.
PastEventMagazine(t) ==
    /\ creator[t].pc = "body"
    /\ creator'[t].pc # "body"
    /\ \E fail \in Fails \ EventMagazineFails, task_key \in RandomKeys :
          ns_body(t, fail, task_key)

FailedAt(t, set) ==
    /\ creator[t].pc = "body"
    /\ creator'[t].pc # "body"
    /\ ~ \E task_key \in RandomKeys : ns_body(t, "none", task_key)
    /\ \E fail \in set, task_key \in RandomKeys : ns_body(t, fail, task_key)

\* The call of task t returns an error in this step after it has undone
\* what it did: no context is installed, the counter and the registry are
\* as before, the mutex is free and everything the call allocated was
\* released once.
RolledBack(t) ==
    /\ creator'[t].pc = "returned"
    /\ creator'[t].retn \notin {"0", "NONE"}
    /\ creator'[t].res = {}
    /\ domains' = domains
    /\ context_id' = context_id
    /\ context_id_list' = context_id_list
    /\ context_id_mutex' = 0

\* The allocations of tsem_ns_create after the mutex is taken: the event
\* magazine, the model with its coefficient magazine, the external
\* structure, the registry entry and the export magazine.
Allocations == EventMagazineFails \cup
               {"model", "model_event", "external", "entry",
                "export_magazine_index", "export_magazine_array",
                "export_magazine"}

\* C22: a tsem_ns_create in which an allocation fails returns an error,
\* leaves the calling task in its domain and the id counter and the key
\* registry as they were, and has released once everything it allocated.
C22_CreationRollback ==
    [][\A t \in Creators : FailedAt(t, Allocations) => RolledBack(t)]_vars

\* The rollback after a failure of allocate_external: of the external
\* structure, of the hash of the key, of the registry entry or of the
\* file of the domain.
RollbackOfExternal ==
    [][\A t \in Creators :
          FailedAt(t, {"external", "hash", "entry", "dentry"})
             => RolledBack(t)
      ]_vars

(***************************************************************************)
(* The export queue of a new external domain, from the call of             *)
(* tsem_export_aggregate that ends tsem_ns_create (namespace.c:339-340).   *)
(* Until that call has returned the task that makes the domain is the only *)
(* one in it and is inside tsem_ns_create.                                 *)
(***************************************************************************)
NextCreated ==
    \/ \E exp \in ExportObjects : tsem_export_aggregate(exp)
    \/ \E t \in Callers, locked \in BOOLEAN, exp \in ExportObjects :
          consumer.calls > 0 /\ tsem_export_event(t, locked, exp)
    \/ \E t \in Callers : export_mark(t)
    \/ \E t \in Callers : export_check(t)
    \/ \E t \in Callers : export_wake(t)
    \/ \E t \in Callers : export_signal(t)
    \/ \E t \in Callers : SIGKILL(t)
    \/ \E t \in Callers, event \in TsemEvents, locked \in BOOLEAN,
          exp \in ExportObjects :
          consumer.calls > 0 /\ tsem_export_action(t, event, locked, exp)
    \/ consumer.calls > 0 /\ tsem_export_show
    \/ \E t \in Callers, cmd \in {"TRUSTED", "UNTRUSTED"} :
          control_COE(t, cmd)
    \/ \E index \in 0..(MagazineSize - 1) : refill_worker(index)

SpecCreated == InitExport /\ [][NextCreated]_vars

\* C27: once tsem_ns_create has run tsem_export_aggregate on the new
\* external domain, an AGGREGATE record has been queued; it is the first
\* record of the queue, ahead of every event and log record, and the
\* first record that tsem_export_show removes.
C27_AggregateFirst ==
    /\ [](consumer.calls > 0 => queued > 0)
    /\ [](\A i \in 1..Len(external.export_list) :
             external.export_list[i].nr = 1
                => external.export_list[i].type = "AGGREGATE_EVENT")
    /\ [][(Removed /\ consumer.shown = 0)
             => Head(external.export_list).type = "AGGREGATE_EVENT"
         ]_vars

\* An AGGREGATE record is the first record of the domain where there is
\* one.
AggregateNotBehind ==
    \A i \in 1..Len(external.export_list) :
       external.export_list[i].type = "AGGREGATE_EVENT"
          => external.export_list[i].nr = 1

(***************************************************************************)
(* model.c: tsem_model_compute_state() when a hash operation fails.        *)
(***************************************************************************)

\* Where tsem_model_compute_state() fails: nowhere; at one of the hash
\* operations of the seed (lines 308-323); at vmalloc (lines 330-334); or
\* at one of the hash operations of the loop for points[lp] (lines
\* 348-358).
FailureSteps(count) ==
    {[at |-> a, lp |-> 0] : a \in {"none", "seed", "vmalloc"}}
       \cup {[at |-> "loop", lp |-> lp] : lp \in 0..(count - 1)}

\* retn at the label done: the steps of the seed assign the error to
\* retn, vmalloc's failure assigns -ENOMEM, and the steps of the loop
\* jump to done without an assignment, so that retn is the 0 of the last
\* operation of the seed.
compute_state_retn(fail) ==
    IF fail.at \in {"seed", "vmalloc"} THEN "ERROR" ELSE "0"

\* model->state when tsem_model_compute_state() returns after the failure
\* fail: at the label done the digest is cleared if retn is set; a failure
\* in the loop leaves the digest of the points before points[lp], which
\* is the seed for lp = 0.
tsem_model_compute_state_at(base_, aggregate_, plist, count, fail) ==
    LET seed == Hash(<<ZeroBytes, get_host_measurement(base_, aggregate_)>>)
        points == state_order([i \in 1..count |-> plist[i].point])
    IN IF fail.at = "none"
       THEN tsem_model_compute_state(base_, aggregate_, plist, count)
       ELSE IF compute_state_retn(fail) # "0" \/ count = 0
       THEN ZeroBytes
       ELSE StateChain(seed, base_, SubSeq(points, 1, fail.lp))

\* A call of tsem_model_compute_state() in which the step fail fails.
ComputeStateAt(fail) ==
    /\ fail \in FailureSteps(point_count)
    /\ state' = tsem_model_compute_state_at(
                    base, tsem_trust_aggregate(have_tpm), point_list,
                    point_count, fail)
    /\ UNCHANGED <<have_tpm, ctx_id, sealed, base, measurement, point_list,
                   point_count, trajectory_list, forensics_list,
                   magazine_index, trust_status, nevents, submitted, chain,
                   faults>>
    /\ UNCHANGED <<tvars, xvars>>

NextCompute ==
    \/ \E c \in Coeffs, lk \in BOOLEAN : ModelEvent(c, lk)
    \/ \E index \in 0..(MagazineSize - 1) : refill_point_magazine(index)
    \/ \E lp \in 0..MaxEvents, at \in {"none", "seed", "vmalloc", "loop"} :
          ComputeStateAt([at |-> at, lp |-> lp])

SpecCompute == Init /\ [][NextCompute]_vars

\* C30: when a hash operation of tsem_model_compute_state fails, be it
\* one of the seed or one inside the loop over the sorted coefficients,
\* the state digest of the model is all zeros when the function returns.
C30_PoisonOnFailure ==
    [][\A lp \in 0..MaxEvents, at \in {"seed", "loop"} :
          ComputeStateAt([at |-> at, lp |-> lp]) => state' = ZeroBytes
      ]_vars

\* A failure of one of the hash operations of the seed, or of vmalloc,
\* clears the state digest.
PoisonOnSeedFailure ==
    [][\A at \in {"seed", "vmalloc"} :
          ComputeStateAt([at |-> at, lp |-> 0]) => state' = ZeroBytes
      ]_vars

(***************************************************************************)
(* The order of the trajectory and the order of the measurement.           *)
(***************************************************************************)

\* The coefficients of the events in the order in which
\* update_events_measurement() folded them into model->measurement; the
\* aggregate that tsem_model_add_aggregate() folded first is no event.
FoldOrder ==
    LET folds == IF ctx_id = 0 THEN chain ELSE Tail(chain)
    IN [i \in 1..Len(folds) |-> folds[i][2]]

\* The coefficients of the events of the trajectory, in list order.
TrajectoryOrder ==
    [i \in 1..Len(trajectory_list) |-> trajectory_list[i].mapping]

\* Every call of tsem_model_event() has returned, and none of them ended
\* in a fault.
Quiescent == faults = {} /\ \A t \in Tasks : pc[t] = "idle"

\* C28: for any interleaving of calls of tsem_model_event in an unsealed
\* domain, the events of the trajectory are in the order in which their
\* coefficients were folded into the measurement.
C28_TrajectoryIsFoldOrder ==
    (Quiescent /\ ~sealed) => TrajectoryOrder = FoldOrder

\* The trajectory holds the events whose coefficients were folded, each
\* once, whatever the order.
TrajectoryIsFoldBag ==
    (Quiescent /\ ~sealed) =>
        \A c \in Coeffs :
            Cardinality({i \in DOMAIN TrajectoryOrder :
                            TrajectoryOrder[i] = c})
               = Cardinality({i \in DOMAIN FoldOrder : FoldOrder[i] = c})

(***************************************************************************)
(* event.c, trust.c and model.c: the reference count of an event, the PCR  *)
(* extension queue and the calls that fold a coefficient into the          *)
(* measurement of an internal domain.                                      *)
(***************************************************************************)

\* A test that extends the PCR for the domains other than the root.
calls_trust_add_event_nonroot(id_) == id_ # 0

\* update_events_measurement(), lines 262-263:
\* if (!tsem_context(current)->id) retn = tsem_trust_add_event(ep).
calls_trust_add_event(id_) == id_ = 0

\* A tsem_trust_add_event() that returns the error of the extension.
tsem_trust_add_event_checked(tpm_) ==
    [retn |-> IF tpm_ THEN "ERROR" ELSE "0", queued |-> tpm_]

\* tsem_trust_add_event(ep): without a TPM it returns 0; with one it takes
\* a reference to ep, queues tpm_update_worker on tpm_update_wq and
\* returns 0.
tsem_trust_add_event(tpm_) == [retn |-> "0", queued |-> tpm_]

\* A kref_put() that calls release whatever the count.
kref_put_release_always(count) == TRUE

\* kref_put(): release is called when the count drops from 1 to 0.
kref_put_release(count) == count = 1

\* kmem_cache_zalloc(event_cachep) returned obj: the cache without it.
cache_take(c, obj) ==
    [freed |-> c.freed \ {obj},
     next |-> IF obj = c.next THEN c.next + 1 ELSE c.next]

\* kmem_cache_free(event_cachep, obj) for the objects objs.
kmem_cache_free(c, objs) == [c EXCEPT !.freed = @ \cup objs]

\* tsem_event_put(ep) for each event of ids: the counts.  An event whose
\* last reference it was is gone, and so is its tie to the object.
tsem_event_put(k, ids) ==
    [i \in DOMAIN k |->
        IF i \notin ids THEN k[i]
        ELSE IF kref_put_release(k[i].count) THEN [count |-> 0, obj |-> 0]
        ELSE [k[i] EXCEPT !.count = @ - 1]]

\* tsem_event_put(ep) for each event of ids: tsem_event_free() returns to
\* the cache the objects of the events whose last reference it was.
tsem_event_free(c, k, ids) ==
    kmem_cache_free(c, {k[i].obj : i \in {j \in ids :
                                            kref_put_release(k[j].count)}})

\* The objects of event_cachep that the model tells apart.
EventObjects == 0..(MagazineSize + MaxAcquire + 1)

\* kmem_cache_zalloc(event_cachep, GFP_KERNEL) in the cache c: NULL, or
\* the object the cache hands out next, a freed one if there is one (that
\* of the lowest address) and else one never handed out.
event_zalloc(c) ==
    {0, IF c.freed = {} THEN c.next
        ELSE CHOOSE o \in c.freed : \A q \in c.freed : o <= q}

\* tsem_event_allocate(locked): what it may return, 0 for NULL: an object
\* of the allocator when not locked, the object of the first slot of the
\* magazine whose bit is clear when locked.
tsem_event_allocate(locked) ==
    LET index == find_first_zero_bit(mag.index, MagazineSize)
    IN IF ~locked THEN event_zalloc(cache)
       ELSE IF index < MagazineSize THEN {mag.magazine[index]}
       ELSE {0}

\* tsem_event_allocate(true), lines 553-571: the bit of the slot is set
\* and its refill is queued.
magazine_taken(locked) ==
    LET index == find_first_zero_bit(mag.index, MagazineSize)
    IN IF locked /\ index < MagazineSize
       THEN [mag EXCEPT !.index = @ \cup {index}, !.work = @ \cup {index}]
       ELSE mag

\* A security hook of a task of an internal domain: tsem_map_event() or
\* tsem_map_event_locked() makes the event with the coefficient c
\* (tsem_event_init: one reference), tsem_model_event() models it and the
\* hook drops its reference.  A call that faults at line 457 of model.c
\* never returns: the reference of the hook stays.
hook_event(c, lk, obj) ==
    /\ ns.kref > 0 /\ ns.ran = 0
    /\ hook.calls < MaxCalls
    /\ obj \in tsem_event_allocate(lk)
    /\ mag' = magazine_taken(lk)
    /\ IF obj = 0
       THEN /\ hook' = [calls |-> hook.calls + 1, call |-> "event",
                        retn |-> "ENOMEM", trust |-> "NONE"]
            /\ UNCHANGED <<measurement, point_list, point_count,
                           trajectory_list, forensics_list, magazine_index,
                           trust_status, nevents, submitted, chain, faults,
                           kref, cache, tpm_update_wq>>
       ELSE LET id == Len(kref) + 1
                ep == [id |-> id, mapping |-> c, locked |-> lk]
                calls == /\ have_point(point_list, c) = 0
                         /\ calls_trust_add_event(ctx_id)
                ta == tsem_trust_add_event(have_tpm)
                enqueued == calls /\ ta.queued
            IN /\ nevents' = nevents + 1
               /\ submitted' = Append(submitted,
                                      [mapping |-> c, locked |-> lk])
               /\ IF calls /\ ta.retn # "0"
                  THEN \* line 441: if (retn) goto done
                       /\ measurement' =
                            update_events_measurement(measurement, base, c)
                       /\ chain' = Append(chain, <<base, c>>)
                       /\ UNCHANGED <<point_list, point_count,
                                      trajectory_list, forensics_list,
                                      magazine_index, trust_status, faults>>
                  ELSE tsem_model_event(current, ep)
               /\ LET listed == (Len(trajectory_list') + Len(forensics_list'))
                                   - (Len(trajectory_list)
                                        + Len(forensics_list))
                      oops == faults' # faults
                      count == listed + (IF enqueued THEN 1 ELSE 0)
                                      + (IF oops THEN 1 ELSE 0)
                      taken == IF lk THEN cache ELSE cache_take(cache, obj)
                  IN /\ kref' = Append(kref,
                                       [count |-> count,
                                        obj |-> IF count = 0 THEN 0 ELSE obj])
                     /\ cache' = IF count = 0
                                 THEN kmem_cache_free(taken, {obj})
                                 ELSE taken
                     /\ hook' = [calls |-> hook.calls + 1,
                                 call |-> "event",
                                 retn |-> IF oops THEN "OOPS"
                                          ELSE IF calls THEN ta.retn ELSE "0",
                                 trust |-> IF calls THEN ta.retn ELSE "NONE"]
               /\ tpm_update_wq' =
                    IF enqueued
                    THEN [tpm_update_wq EXCEPT
                            !.work = Append(@, [ep |-> id, mapping |-> c])]
                    ELSE tpm_update_wq
    /\ UNCHANGED <<have_tpm, ctx_id, sealed, base, state>>
    /\ UNCHANGED <<tvars, peer, fvars, mappings, received, refused, external,
                   caller, consumer, nvars, ns, have_aggregate>>

\* tpm_update_worker(): the first work item of tpm_update_wq runs; the PCR
\* is extended with the coefficient or, when tpm_pcr_extend() fails, a
\* warning is logged; the reference of the work item is dropped.
tpm_update_worker(ok) ==
    /\ tpm_update_wq.work # << >>
    /\ LET w == Head(tpm_update_wq.work)
       IN /\ tpm_update_wq' =
               [work |-> Tail(tpm_update_wq.work),
                pcr |-> IF ok THEN tpm_update_wq.pcr + 1
                        ELSE tpm_update_wq.pcr,
                failed |-> tpm_update_wq.failed \/ ~ok]
          /\ kref' = tsem_event_put(kref, {w.ep})
          /\ cache' = tsem_event_free(cache, kref, {w.ep})
    /\ UNCHANGED <<dvars, tvars, peer, fvars, mappings, mag, received,
                   refused, external, caller, consumer, nvars, hook, ns,
                   have_aggregate>>

\* tsem_model_add_aggregate(), and lines 495-504 of
\* tsem_model_load_point(): tsem_event_allocate(false) returned obj; the
\* event gets the coefficient, update_events_measurement() folds it and
\* the event is put.  s holds the measurement, the fold history, the
\* events, the cache and the work of tpm_update_wq before the call.
fold_coefficient(s, mapping, obj) ==
    IF obj = 0 THEN [s EXCEPT !.retn = "ENOMEM"]
    ELSE LET id == Len(s.kref) + 1
             calls == calls_trust_add_event(ctx_id)
             ta == tsem_trust_add_event(have_tpm)
             enqueued == calls /\ ta.queued
             taken == cache_take(s.cache, obj)
         IN [measurement |->
                update_events_measurement(s.measurement, base, mapping),
             chain |-> Append(s.chain, <<base, mapping>>),
             kref |-> Append(s.kref, [count |-> IF enqueued THEN 1 ELSE 0,
                                      obj |-> IF enqueued THEN obj ELSE 0]),
             cache |-> IF enqueued THEN taken
                       ELSE kmem_cache_free(taken, {obj}),
             work |-> IF enqueued
                      THEN Append(s.work, [ep |-> id, mapping |-> mapping])
                      ELSE s.work,
             retn |-> IF calls THEN ta.retn ELSE "0",
             trust |-> IF calls THEN ta.retn ELSE "NONE"]

have_aggregate_kept(have, retn) == have

\* tsem_model_load_point(), lines 488-493: ctx->model->have_aggregate =
\* true once tsem_model_add_aggregate() has returned zero.
set_have_aggregate(have, retn) == have \/ retn = "0"

\* tsem_model_load_point(point): a coefficient that the model does not
\* hold is added to the list as a valid one; the aggregate is folded
\* first if model->have_aggregate is not set; then the coefficient is
\* folded.  obj1 and obj2 are what the two calls of
\* tsem_event_allocate(false) return.
tsem_model_load_point(point, obj1, obj2) ==
    /\ ns.kref > 0 /\ ns.ran = 0
    /\ hook.calls < MaxCalls
    /\ IF have_point(point_list, point) # 0
       THEN /\ obj1 = 0 /\ obj2 = 0
            /\ hook' = [calls |-> hook.calls + 1, call |-> "load_point",
                        retn |-> "0", trust |-> "NONE"]
            /\ UNCHANGED <<measurement, chain, point_list, point_count,
                           kref, cache, tpm_update_wq, have_aggregate>>
       ELSE LET s0 == [measurement |-> measurement, chain |-> chain,
                       kref |-> kref, cache |-> cache,
                       work |-> tpm_update_wq.work, retn |-> "0",
                       trust |-> "NONE"]
                s1 == IF have_aggregate THEN s0
                      ELSE fold_coefficient(
                               s0, tsem_trust_aggregate(have_tpm), obj1)
                s2 == IF s1.retn # "0" THEN s1
                      ELSE fold_coefficient(s1, point, obj2)
            IN /\ obj1 \in IF have_aggregate THEN {0} ELSE event_zalloc(cache)
               /\ obj2 \in IF s1.retn # "0" THEN {0}
                           ELSE event_zalloc(s1.cache)
               /\ point_list' = Append(point_list,
                                       [point |-> point, valid |-> TRUE,
                                        count |-> 0])
               /\ point_count' = point_count + 1
               /\ have_aggregate' = set_have_aggregate(have_aggregate, s1.retn)
               /\ measurement' = s2.measurement
               /\ chain' = s2.chain
               /\ kref' = s2.kref
               /\ cache' = s2.cache
               /\ tpm_update_wq' = [tpm_update_wq EXCEPT !.work = s2.work]
               /\ hook' = [calls |-> hook.calls + 1, call |-> "load_point",
                           retn |-> s2.retn, trust |-> s2.trust]
    /\ UNCHANGED <<have_tpm, ctx_id, sealed, base, state, trajectory_list,
                   forensics_list, magazine_index, trust_status, nevents,
                   submitted, faults>>
    /\ UNCHANGED <<tvars, peer, fvars, mappings, mag, received, refused,
                   external, caller, consumer, nvars, ns>>

NextTrust ==
    \/ \E c \in Coeffs, lk \in BOOLEAN, obj \in EventObjects :
          hook_event(c, lk, obj)
    \/ \E point \in Coeffs, obj1, obj2 \in EventObjects :
          tsem_model_load_point(point, obj1, obj2)
    \/ \E ok \in BOOLEAN : tpm_update_worker(ok)
    \/ \E index \in 0..(MagazineSize - 1) : refill_point_magazine(index)

\* An internal domain, root or not, with its event magazine.
InitTrust ==
    /\ InitDomain /\ InitTasks /\ InitPeer /\ InitFiles /\ InitMappings
    /\ InitMagazine("event") /\ InitExternal /\ InitNs /\ InitLifetime

\* The calls that fold a coefficient, and the PCR extension.
SpecTrust == InitTrust /\ [][NextTrust]_vars

NextEvent ==
    \/ NextTrust
    \/ \E index \in 0..(MagazineSize - 1) : refill_worker(index)

\* The same with the refill worker of the event magazine.
SpecEvent == InitTrust /\ [][NextEvent]_vars

\* The events are counted and live in objects of the cache.
EventsTyped ==
    \A i \in DOMAIN kref : kref[i].count >= 0 /\ kref[i].obj \in EventObjects

\* The step folds a coefficient: update_events_measurement() ran.
Folds == Len(chain') > Len(chain)

\* The step is a run of tpm_update_worker().
IsExtension ==
    Len(tpm_update_wq'.work) < Len(tpm_update_wq.work)

\* C29, as the code has it: update_events_measurement() calls
\* tsem_trust_add_event() for every coefficient it folds in the root
\* domain (id 0), which queues one PCR extension for each if there is a
\* TPM, and for no coefficient of a domain other than the root; a call
\* that folds nothing queues nothing.
C29_ExtendInRoot ==
    [][/\ Folds => /\ (hook'.trust # "NONE") <=> (ctx_id = 0)
                   /\ Len(tpm_update_wq'.work) - Len(tpm_update_wq.work)
                         = IF ctx_id = 0 /\ have_tpm
                           THEN Len(chain') - Len(chain) ELSE 0
       /\ ~Folds => Len(tpm_update_wq'.work) <= Len(tpm_update_wq.work)
      ]_vars

\* C29: two events of the root domain were folded and the extension of
\* each is queued.
C29_Witness ==
    /\ ctx_id = 0 /\ have_tpm
    /\ hook.call = "event" /\ hook.trust = "0"
    /\ Len(trajectory_list) = 2
    /\ Len(tpm_update_wq.work) = 2

\* Nothing was folded in the domain since it was made.
FirstAdmitted == Len(chain) = IF ctx_id = 0 THEN 0 ELSE 1

\* C29 as stated: the PCR extension is triggered for the first admitted
\* event of a domain other than the root, and not for the events of the
\* root domain.
C29_ExtendFirstNonRoot ==
    [][(Folds /\ hook'.call = "event")
          => ((hook'.trust # "NONE") <=> (ctx_id # 0 /\ FirstAdmitted))
      ]_vars

Retained ==
    {trajectory_list[i].id : i \in DOMAIN trajectory_list}
       \cup {forensics_list[i].id : i \in DOMAIN forensics_list}
       \cup {tpm_update_wq.work[i].ep : i \in DOMAIN tpm_update_wq.work}

\* C25: an event that is in the trajectory or the forensics list or is
\* queued for PCR extension holds a reference and lives in an object that
\* was not freed: an event is freed by the release of its last reference
\* and by nothing else.
C25_RetainedNotFreed ==
    \A id \in Retained :
        kref[id].count > 0 /\ kref[id].obj \notin cache.freed

\* Every reference to an event is counted: the count of an event is the
\* number of lists and work items that refer to it, and one more for the
\* hook that faulted while it held the event.
ReferencesCounted ==
    \A id \in DOMAIN kref :
        kref[id].count =
           Cardinality({i \in DOMAIN trajectory_list :
                           trajectory_list[i].id = id})
           + Cardinality({i \in DOMAIN forensics_list :
                             forensics_list[i].id = id})
           + Cardinality({i \in DOMAIN tpm_update_wq.work :
                             tpm_update_wq.work[i].ep = id})
           + (IF id \in faults THEN 1 ELSE 0)

(***************************************************************************)
(* namespace.c: the reference count of a domain and its teardown.          *)
(***************************************************************************)

\* The tasks of the domain that are inside a call: each holds a
\* reference to the domain.
InCall ==
    Cardinality({t \in Tasks : caller[t].pc \notin {"idle", "returned"}})

\* tsem_ns_get(ctx): kref_get(&ctx->kref), by a holder of a reference, as
\* when a task of the domain forks.
tsem_ns_get ==
    /\ ns.kref > 0
    /\ ns.gets < MaxRefs
    /\ ns' = [ns EXCEPT !.kref = @ + 1, !.gets = @ + 1]
    /\ UNCHANGED <<dvars, tvars, peer, fvars, mappings, mvars, evars, nvars,
                   tpm_update_wq, hook, have_aggregate>>

\* ns_free(kref): INIT_WORK(&ctx->work, wq_put); queue_work(system_wq,
\* &ctx->work).
ns_free(n) == [n EXCEPT !.work = @ + 1]

\* tsem_ns_put(ctx): kref_put(&ctx->kref, ns_free), by a holder of a
\* reference that is not inside a call.
tsem_ns_put ==
    /\ ns.kref > InCall
    /\ ns' = LET n == [ns EXCEPT !.kref = @ - 1]
             IN IF kref_put_release(ns.kref) THEN ns_free(n) ELSE n
    /\ UNCHANGED <<dvars, tvars, peer, fvars, mappings, mvars, evars, nvars,
                   tpm_update_wq, hook, have_aggregate>>

\* The events of a list.
EventsOf(list) == {list[i].id : i \in DOMAIN list}

\* The objects in the slots of the magazine.
MagazineObjects == {mag.magazine[lp] : lp \in 0..(MagazineSize - 1)}

\* wq_put() for an internal domain: tsem_model_free() frees the
\* coefficients and the pseudonyms, puts the events of the trajectory
\* and, if the domain is sealed, those of the forensics list;
\* tsem_event_magazine_free() frees the object of every slot.
wq_put_model ==
    /\ ns.work > ns.ran
    /\ ns' = [ns EXCEPT !.ran = @ + 1]
    /\ LET ids == EventsOf(trajectory_list)
                     \cup IF sealed THEN EventsOf(forensics_list) ELSE {}
       IN /\ kref' = tsem_event_put(kref, ids)
          /\ cache' = kmem_cache_free(tsem_event_free(cache, kref, ids),
                                      MagazineObjects)
    /\ point_list' = << >>
    /\ pseudonym_list' = << >>
    /\ trajectory_list' = << >>
    /\ forensics_list' = IF sealed THEN << >> ELSE forensics_list
    /\ UNCHANGED <<have_tpm, ctx_id, sealed, base, measurement, state,
                   point_count, magazine_index, trust_status, nevents,
                   submitted, chain, faults>>
    /\ UNCHANGED <<tvars, peer, inode, file_event, mappings, mag, received,
                   refused, external, caller, consumer, nvars, tpm_update_wq,
                   hook, have_aggregate>>

NextLife ==
    \/ \E c \in Coeffs, lk \in BOOLEAN, obj \in EventObjects :
          hook_event(c, lk, obj)
    \/ ns.kref > 0 /\ tsem_seal
    \/ tsem_ns_get
    \/ tsem_ns_put
    \/ wq_put_model

\* An internal domain made by tsem_ns_create, with the reference of the
\* task that made it.
InitLife == InitTrust /\ ctx_id = 1 /\ ~have_tpm

SpecLife == InitLife /\ [][NextLife]_vars

\* C23: wq_put is queued in the step, and only in the step, in which
\* tsem_ns_put drops ctx->kref from 1 to 0, and it is never queued a
\* second time; it runs only once it is queued.
C23_TeardownOnce ==
    [][/\ (ns'.work # ns.work) <=> (ns.kref = 1 /\ ns'.kref = 0)
       /\ ns'.work \in {0, 1}
       /\ ns'.ran <= ns'.work
      ]_vars

\* C23: references were taken and all were put; wq_put was queued once
\* and ran.
C23_Witness ==
    /\ ns.gets = MaxRefs /\ ns.kref = 0
    /\ ns.work = 1 /\ ns.ran = 1

\* After wq_put ran for an internal domain its lists are empty and no
\* event holds a reference but that of a hook that faulted.
TeardownOfModel ==
    ns.ran > 0 =>
        /\ trajectory_list = << >> /\ forensics_list = << >>
        /\ \A id \in DOMAIN kref :
              kref[id].count = IF id \in faults THEN 1 ELSE 0

\* wq_put() for an external domain: the key leaves the registry, the
\* pseudo-file is removed, tsem_export_magazine_free() frees the object of
\* every slot and ctx->external is freed.  The records of export_list are
\* not visited.
wq_put_external ==
    /\ ns.work > ns.ran
    /\ context_id_mutex = 0
    /\ ns' = [ns EXCEPT !.ran = @ + 1]
    /\ context_id_list' = remove_task_key(context_id_list, ctx_id)
    /\ cache' = kmem_cache_free(cache, MagazineObjects)
    /\ UNCHANGED <<dvars, tvars, peer, fvars, mappings, mag, received,
                   refused, evars, context_id, context_id_mutex, domains,
                   creator, tpm_update_wq, hook, have_aggregate>>

\* The domain has a task, and with it its pseudo-file.
Alive == ns.kref > 0

NextTeardown ==
    \/ \E exp \in ExportObjects : Alive /\ tsem_export_aggregate(exp)
    \/ \E t \in Callers, locked \in BOOLEAN, exp \in ExportObjects :
          Alive /\ consumer.calls > 0 /\ tsem_export_event(t, locked, exp)
    \/ \E t \in Callers : Alive /\ export_mark(t)
    \/ \E t \in Callers : Alive /\ export_check(t)
    \/ \E t \in Callers : Alive /\ export_wake(t)
    \/ \E t \in Callers : Alive /\ export_signal(t)
    \/ \E t \in Callers : Alive /\ SIGKILL(t)
    \/ \E t \in Callers, event \in TsemEvents, locked \in BOOLEAN,
          exp \in ExportObjects :
          Alive /\ consumer.calls > 0
                /\ tsem_export_action(t, event, locked, exp)
    \/ Alive /\ consumer.calls > 0 /\ tsem_export_show
    \/ \E t \in Callers, cmd \in {"TRUSTED", "UNTRUSTED"} :
          Alive /\ control_COE(t, cmd)
    \/ \E index \in 0..(MagazineSize - 1) : Alive /\ refill_worker(index)
    \/ consumer.calls > 0 /\ tsem_ns_put
    \/ wq_put_external

\* An external domain from its creation to its teardown.
SpecTeardown == InitExport /\ [][NextTeardown]_vars

\* The records of the export queue that refer to an event.
EventRecords ==
    {i \in DOMAIN external.export_list :
        external.export_list[i].type \in {"EXPORT_EVENT",
                                          "EXPORT_ASYNC_EVENT"}}

\* C24: after wq_put has run for a domain, the domain refers to no
\* event: its trajectory and its forensics list are empty, and no record
\* that refers to an event is left in its export queue with its reference
\* not dropped.
C24_TeardownReleasesAll ==
    ns.ran > 0 =>
        /\ trajectory_list = << >> /\ forensics_list = << >>
        /\ EventRecords = {}

\* wq_put runs once, and only after ns_free queued it.
TeardownRunsOnce == ns.ran <= ns.work /\ ns.work <= 1

(***************************************************************************)
(* model.c, lines 431-437: a call answered from the set.                   *)
(***************************************************************************)

\* The call of the step is answered by an entry of the set that is not
\* valid, in a sealed domain.
HitInvalid ==
    /\ IsCall
    /\ sealed
    /\ \E i \in 1..Len(point_list) :
          point_list[i].point = Call.mapping /\ ~point_list[i].valid

\* C35: in a sealed domain a tsem_model_event call whose coefficient is in
\* the set with valid = false sets the caller's trust status to UNTRUSTED,
\* adds one to the entry's count and leaves the forensics list, the set and
\* the measurement unchanged.
C35_InvalidHitUntrusted ==
    [][ HitInvalid =>
          /\ trust_status'[current] = TSEM_TASK_UNTRUSTED
          /\ \A i \in 1..Len(point_list) :
               point_list'[i] =
                 IF point_list[i].point = Call.mapping
                 THEN [point_list[i] EXCEPT !.count = point_list[i].count + 1]
                 ELSE point_list[i]
          /\ Len(point_list') = Len(point_list)
          /\ point_count' = point_count
          /\ forensics_list' = forensics_list
          /\ trajectory_list' = trajectory_list
          /\ measurement' = measurement
      ]_vars

\* C35: a sealed domain holds an invalid entry that answered a later call.
C35_Witness ==
    /\ sealed
    /\ trust_status[current] = TSEM_TASK_UNTRUSTED
    /\ \E i \in 1..Len(point_list) :
          /\ ~point_list[i].valid
          /\ point_list[i].count = 2
          /\ Cardinality({k \in 1..Len(submitted) :
                            submitted[k].mapping = point_list[i].point}) = 2

(***************************************************************************)
(* model.c, lines 433 and 457: ++point->count outside point_lock.          *)
(***************************************************************************)

\* The calls that were made with the coefficient c.
CallsOf(c) == {k \in 1..Len(submitted) : submitted[k].mapping = c}

\* C39: when every call has returned zero, an entry that is the only one of
\* its coefficient counts the calls that were made with that coefficient.
C39_CountsExact ==
    Quiescent =>
      \A i \in 1..Len(point_list) :
         (\A j \in 1..Len(point_list) :
             point_list[j].point = point_list[i].point => j = i)
         => point_list[i].count = Cardinality(CallsOf(point_list[i].point))

(***************************************************************************)
(* model.c, lines 439-461: a call whose add_event_point() fails.           *)
(***************************************************************************)

\* The call of the step misses in the set and alloc_event_point() has no
\* object for it: add_event_point() returns ERR_PTR(-ENOMEM).
AddEventPointFails ==
    /\ IsCall
    /\ ~InSet(point_list, Call.mapping)
    /\ ~alloc_ok(alloc_event_point(magazine_index, Call.locked))

\* C37: a tsem_model_event call whose coefficient allocation fails leaves
\* the set, point_count, the trajectory, the forensics and the measurement
\* unchanged, and dereferences no pointer that is not an entry.
C37_FailedCallNoEffect ==
    [][ AddEventPointFails =>
          /\ point_list' = point_list
          /\ point_count' = point_count
          /\ trajectory_list' = trajectory_list
          /\ forensics_list' = forensics_list
          /\ measurement' = measurement
          /\ faults' = faults
      ]_vars

(***************************************************************************)
(* model.c, lines 443-454 and 656-662: the forensics list and teardown.    *)
(***************************************************************************)

\* C40: the forensics list holds events only if the domain is sealed, so
\* that tsem_model_free, which puts the forensic events of sealed domains
\* only, leaves no event on the forensics list once it has run.
C40_ForensicsOnlyIfSealed ==
    /\ forensics_list # << >> => sealed
    /\ ns.ran > 0 => forensics_list = << >>

\* C40: a sealed domain took an event onto its forensics list, which made
\* the caller untrusted, and was torn down.
C40_Witness ==
    /\ sealed
    /\ ns.ran = 1
    /\ forensics_list = << >>
    /\ nevents > 0
    /\ trust_status[current] = TSEM_TASK_UNTRUSTED

(***************************************************************************)
(* model.c, lines 475-505: the aggregate and tsem_model_load_point().      *)
(***************************************************************************)

\* The step is a call of tsem_model_load_point.
IsLoadPoint == hook'.calls = hook.calls + 1 /\ hook'.call = "load_point"

\* The number of times the aggregate was folded into the measurement.
AggregateFolds(ch) ==
    Cardinality({i \in DOMAIN ch : ch[i][2] = tsem_trust_aggregate(have_tpm)})

\* The step folds the aggregate into the measurement.
InjectsAggregate == AggregateFolds(chain') > AggregateFolds(chain)

\* A point was loaded before and no event has matched it since: its entry
\* has the count 0 that only tsem_model_load_point leaves.
LoadedBefore == \E i \in 1..Len(point_list) : point_list[i].count = 0

C34_AggregateFoldedOnce ==
    ctx_id # 0 => AggregateFolds(chain) = 1

(***************************************************************************)
(* model.c, lines 325-361: tsem_model_compute_state() while coefficients   *)
(* are inserted.  add_event_point() (lines 178-181) appends the entry and  *)
(* increments point_count in one hold of point_lock, as ModelEvent does    *)
(* in one step; the steps of tsem_model_compute_state() are those between  *)
(* which point_lock is free.  Every hash operation and vmalloc() of a      *)
(* size that is not zero succeed.                                          *)
(***************************************************************************)

\* The task that calls tsem_model_compute_state(), another than the one
\* whose events are modelled.
Computers == {CHOOSE t \in Tasks : t # current}

walk_to_tail(end, plist) == Len(plist)

\* Lines 337-341: list_for_each_entry() stops after the entry end_point.
walk_end(end, plist) == end

\* What sort(points, count, ...) and the loop lp < pt_count make of an
\* array of count slots of which the walk filled the first pt_count: with
\* pt_count = count the chain over the sorted coefficients; with
\* pt_count > count the walk wrote past the array, with pt_count < count
\* slots that were never written are sorted, and the outcome is any of the
\* chains over the collected coefficients or the cleared state.
compute_state_outcomes(base_, aggregate_, points, count) ==
    LET seed == Hash(<<ZeroBytes, get_host_measurement(base_, aggregate_)>>)
    IN IF Len(points) = count
       THEN {StateChain(seed, base_, state_order(points))}
       ELSE {ZeroBytes, StateChain(seed, base_, points),
             StateChain(seed, base_, state_order(points))}

\* Lines 325-328: end = model->point_list.prev and count =
\* model->point_count, under point_lock.
cs_snapshot(t) ==
    /\ pc[t] = "idle"
    /\ cur_point' = [cur_point EXCEPT ![t] = Len(point_list)]
    /\ cur_tmp' = [cur_tmp EXCEPT ![t] = point_count]
    /\ pc' = [pc EXCEPT ![t] = "cs_collect"]
    /\ UNCHANGED <<dvars, cur_ep, cur_sealed, xvars>>

\* Lines 330-341: points = vmalloc(sizeof(*points) * count), NULL for
\* count = 0, which clears model->state and ends the call; else the walk
\* of the list, points[pt_count++] = entry, pt_count kept in cur_point.
cs_collect(t) ==
    /\ pc[t] = "cs_collect"
    /\ IF cur_tmp[t] = 0
       THEN /\ state' = ZeroBytes
            /\ ev_return(t)
       ELSE /\ cur_point' = [cur_point EXCEPT
                               ![t] = walk_end(cur_point[t], point_list)]
            /\ pc' = [pc EXCEPT ![t] = "cs_hash"]
            /\ UNCHANGED <<state, cur_ep, cur_sealed, cur_tmp>>
    /\ UNCHANGED <<have_tpm, ctx_id, sealed, base, measurement, point_list,
                   point_count, trajectory_list, forensics_list,
                   magazine_index, trust_status, nevents, submitted, chain,
                   faults>>
    /\ UNCHANGED xvars

\* Lines 342-359: sort(points, count, ...), the seed copied to
\* model->state and the chain over points[0 .. pt_count - 1].
cs_hash(t) ==
    /\ pc[t] = "cs_hash"
    /\ state' \in compute_state_outcomes(
                      base, tsem_trust_aggregate(have_tpm),
                      [i \in 1..cur_point[t] |-> point_list[i].point],
                      cur_tmp[t])
    /\ ev_return(t)
    /\ UNCHANGED <<have_tpm, ctx_id, sealed, base, measurement, point_list,
                   point_count, trajectory_list, forensics_list,
                   magazine_index, trust_status, nevents, submitted, chain,
                   faults>>
    /\ UNCHANGED xvars

NextSnap ==
    \/ \E c \in Coeffs, lk \in BOOLEAN : ModelEvent(c, lk)
    \/ \E index \in 0..(MagazineSize - 1) : refill_point_magazine(index)
    \/ \E t \in Computers : cs_snapshot(t)
    \/ \E t \in Computers : cs_collect(t)
    \/ \E t \in Computers : cs_hash(t)

\* One domain in which tsem_model_compute_state() runs while events are
\* modelled.
SpecSnap == Init /\ [][NextSnap]_vars

\* C31: the count that tsem_model_compute_state snapshots is the number of
\* entries up to the end it snapshots; the walk collects that many entries,
\* the first count entries of the list, whatever was inserted since; and
\* the state it leaves is the state of those first count entries.
C31_ConsistentSnapshot ==
    /\ [](\A t \in Computers :
            /\ pc[t] = "cs_collect" =>
                 cur_tmp[t] = cur_point[t] /\ cur_tmp[t] <= Len(point_list)
            /\ pc[t] = "cs_hash" =>
                 cur_point[t] = cur_tmp[t] /\ cur_tmp[t] <= Len(point_list))
    /\ [][\A t \in Computers :
            (pc[t] \in {"cs_collect", "cs_hash"} /\ pc'[t] = "idle") =>
               state' = tsem_model_compute_state(
                            base, tsem_trust_aggregate(have_tpm),
                            point_list, cur_tmp[t])
         ]_vars

\* C31: a coefficient was inserted between the snapshot and the walk, and
\* the walk collected the entries of the snapshot only.
C31_Witness ==
    \E t \in Computers :
       /\ pc[t] = "cs_hash"
       /\ cur_point[t] = cur_tmp[t]
       /\ cur_tmp[t] > 0
       /\ Len(point_list) > cur_tmp[t]

(***************************************************************************)
(* namespace.c, lines 122-143, model.c, lines 632-666, and                 *)
(* tsem_event_magazine_free(): the objects released at teardown.           *)
(***************************************************************************)

\* The step is the run of wq_put.
IsTeardown == ns'.ran = ns.ran + 1

\* The events that tsem_model_free() puts.
TeardownPuts ==
    EventsOf(trajectory_list)
       \cup IF sealed THEN EventsOf(forensics_list) ELSE {}

\* The objects of event_cachep that are free when tsem_model_free() has
\* returned: those freed before, and those of the events whose last
\* reference tsem_model_free() put.
FreeAfterModelFree == tsem_event_free(cache, kref, TeardownPuts).freed

\* C38: at teardown no object is released twice: no object that
\* tsem_event_magazine_free() hands to kmem_cache_free() is one that is
\* free already, released by an earlier put or by the puts of
\* tsem_model_free().
C38_NoDoubleFree ==
    [][ IsTeardown => FreeAfterModelFree \cap MagazineObjects = {} ]_vars

(***************************************************************************)
(* part_000, lines 202-230: the answer of the agent and the wait of the    *)
(* caller.                                                                 *)
(***************************************************************************)

\* The scheduler runs every step of a caller that can be run; a sleeping
\* caller is run again whenever it sleeps, woken or not.
SpecExportAnswered ==
    /\ InitExport
    /\ [][NextExport]_vars
    /\ \A t \in Callers :
          /\ WF_vars(export_mark(t))
          /\ WF_vars(export_check(t))
          /\ WF_vars(export_wake(t))
          /\ WF_vars(export_signal(t))

\* Task t is inside a synchronous tsem_export_event call whose record the
\* agent was shown and has answered.
Adjudicated(t) ==
    /\ Synchronous(t)
    /\ caller[t].pc \in {"mark", "check", "sleep", "signal"}
    /\ ~InQueue(LastEvent)
    /\ t \notin consumer.due

\* C36: a caller of synchronous tsem_export_event whose event the agent
\* has answered returns, whenever the answer came, also when it came
\* before the caller set TRUST_PENDING.
C36_AnsweredCallReturns ==
    \A t \in Callers : Adjudicated(t) ~> (caller[t].pc = "returned")

(***************************************************************************)
(* add_file_digest() and the digest an inode caches.                       *)
(***************************************************************************)

\* The files of the domain when it is made: of any content, never
\* collected.
InitCollect ==
    /\ InitDomain /\ InitTasks /\ InitPeer /\ InitMappings
    /\ InitMagazine("point") /\ InitExternal /\ InitNs /\ InitLifetime
    /\ ctx_id = 1 /\ ~have_tpm
    /\ pseudonym_list = << >>
    /\ inode \in [Paths -> {[content |-> c, i_version |-> 0,
                             status |-> "NONE", has_digest |-> FALSE,
                             value |-> ZeroBytes, version |-> 0] :
                               c \in Contents}]
    /\ file_event = NoFileEvent

\* Files are opened and written and the pseudonyms of their names are
\* loaded.
NextCollect ==
    \/ \E p \in Paths, ok \in BOOLEAN :
          tsem_event_init_file("TSEM_FILE_OPEN", p, FALSE, ok)
    \/ \E p \in Paths : tsem_model_load_pseudonym(NamePseudonym(p))
    \/ \E p \in Paths, c \in Contents : write_file(p, c)

\* File events, pseudonyms and writes in an internal domain whose files
\* exist already.
SpecCollect == InitCollect /\ [][NextCollect]_vars

\* The step makes an event on the file at the pathname p.
FileCall(p) ==
    /\ file_event' # file_event
    /\ ~file_event'.anonymous
    /\ file_event'.pathname = p

\* The inode ino holds a digest for the domain's hash that was collected
\* at the inode's current version.
Reusable(ino) ==
    ino.has_digest /\ ino.status = "COLLECTED" /\ ino.version = ino.i_version

====
